---- MODULE Spec2Model ----
(***************************************************************************)
(* State-machine model of the SafeStake.AI contracts:                      *)
(*   AIAgentController  - agent allow-list, rate-limited request queue     *)
(*   CollateralManager  - per-user per-token collateral ledger             *)
(*   StakingProxy       - staking ledger with rewards and unstake cooldown *)
(* Every external function is one action.  A call that reverts leaves the  *)
(* contract state unchanged (EVM transaction semantics); the error it      *)
(* reverts with is given by the operation's ...Result operator.            *)
(***************************************************************************)
EXTENDS Integers, Sequences, FiniteSets, TLC

(***************************************************************************)
(* Addresses                                                               *)
(***************************************************************************)
ZERO == "0x0"
Owner == "owner"
A1 == "agent1"
A2 == "agent2"
U1 == "user1"
U2 == "user2"
Controller == "aiAgentController"
BC == "bridgeCoordinator"

VARIABLES
    now,                  \* block.timestamp
    \* ---- AIAgentController ----
    paused,               \* Pausable._paused
    agentRole,            \* holders of AGENT_ROLE
    authorizedAgents,     \* authorizedAgents[a] = TRUE
    agentTypes,           \* agentTypes[a]
    agentRequests,        \* requestId -> AgentRequest
    agentRequestCounts,   \* agentRequestCounts[a]
    userRequestsPerHour,  \* <<user, hour>> -> count
    controllerEth,        \* ETH held by the controller
    requestEvents,        \* RequestExecuted / RequestCancelled events emitted, by request id
    \* ---- ERC20 tokens and the Pyth oracle ----
    balanceOf,            \* balanceOf[token][holder]
    pythPrices,           \* MockPyth.prices[id]
    \* ---- CollateralManager ----
    positions,            \* positions[user]: tokenBalances, totalValueUSD, ...
    tokenConfigs,         \* tokenConfigs[token]
    supportedTokens,      \* the supportedTokens array
    depositFee,           \* basis points
    withdrawalFee,        \* basis points
    feeRecipient,
    cmEth,                \* ETH held by the CollateralManager
    collateralLedger,     \* per user and token: sums of the amounts in the emitted events
    quotesSeen,           \* quotesSeen[user]: the oracle quotes at the user's last valuation
    \* ---- StakingProxy ----
    stakingPositions,        \* stakingPositions[user]
    supportedStakingTokens,  \* the tokens with supportedStakingTokens[token] = TRUE
    totalStakedPerToken,     \* totalStakedPerToken[token]
    liquidStakingBalances,   \* liquidStakingBalances[user][token]
    baseAnnualRewardRate,    \* basis points
    protocolFeeRate,         \* basis points
    totalProtocolRewards,
    rewardLog,               \* rewardLog[user]: a getStakingInfo reading, what was settled since,
                             \* and the times of the user's pending unstake requests
    \* ---- BridgeCoordinator ----
    bridgeOperations,        \* operationId -> BridgeOperation
    processedNexusTxs,       \* the hashes with processedNexusTxs[hash] = TRUE
    lastBridgeTime,          \* lastBridgeTime[caller]
    bridgeEvents,            \* BridgeOperationCompleted events: <<operationId, success>>
    \* ---- StakingProxy, the earlier version that records bridge ids ----
    processedBridgeIds,      \* the ids with processedBridgeIds[bridgeId] = TRUE
    variantPositions,        \* positions[user] of that version
    totalStaked,
    crossChainStakes,        \* CrossChainStakeExecuted events emitted, by bridgeId
    \* ---- calls in progress ----
    guardStatus,             \* ReentrancyGuard._status of each contract
    inFlight,                \* the call suspended at one of its external calls, if any
    selfCalls                \* requestId -> success of the request's low-level call

ctlVars == <<paused, agentRole, authorizedAgents, agentTypes, agentRequests,
             agentRequestCounts, userRequestsPerHour, controllerEth,
             requestEvents>>
extVars == <<balanceOf, pythPrices>>
cmVars == <<positions, tokenConfigs, supportedTokens, depositFee, withdrawalFee,
            feeRecipient, cmEth, collateralLedger, quotesSeen>>
spVars == <<stakingPositions, supportedStakingTokens, totalStakedPerToken,
            liquidStakingBalances, baseAnnualRewardRate, protocolFeeRate,
            totalProtocolRewards, rewardLog>>
bcVars == <<bridgeOperations, processedNexusTxs, lastBridgeTime, bridgeEvents>>
variantVars == <<processedBridgeIds, variantPositions, totalStaked, crossChainStakes>>
callVars == <<guardStatus, inFlight, selfCalls>>
vars == <<now, ctlVars, extVars, cmVars, spVars, bcVars, variantVars, callVars>>

(***************************************************************************)
(* Time                                                                    *)
(***************************************************************************)
HOUR == 3600
ONE_DAY == 86400
\* Deployment happens one second before an hour bucket rolls over.
StartTime == 2 * HOUR - 1
MaxTicks == 2

(***************************************************************************)
(* AIAgentController                                                       *)
(***************************************************************************)
MAX_REQUESTS_PER_HOUR == 10

\* constructor: the deployer holds these three roles; nobody holds AGENT_ROLE
DefaultAdminRole == {Owner}
ExecutorRole == {Owner}
EmergencyRole == {Owner}

\* the zero-initialised struct a mapping returns for an unknown key
ZeroRequest ==
    [user |-> ZERO, agent |-> ZERO, actionData |-> "0x", timestamp |-> 0,
     expiry |-> 0, executed |-> FALSE, value |-> 0]

Req(id) == IF id \in DOMAIN agentRequests THEN agentRequests[id] ELSE ZeroRequest

RequestsPerHour(user, hour) ==
    IF <<user, hour>> \in DOMAIN userRequestsPerHour
    THEN userRequestsPerHour[<<user, hour>>] ELSE 0

currentHour == now \div HOUR

\* requestId = keccak256(user, msg.sender, actionData, timestamp, count++):
\* distinct for distinct (agent, count); hash collisions are not modelled
RequestId(agent) == <<agent, agentRequestCounts[agent]>>

\* mutant: the zero address is not rejected
authorizeAgentResult_ZeroAccepted(caller, agent) ==
    IF caller \notin DefaultAdminRole THEN "AccessControlUnauthorizedAccount"
    ELSE "ok"

authorizeAgentResult(caller, agent) ==
    IF caller \notin DefaultAdminRole THEN "AccessControlUnauthorizedAccount"
    ELSE IF agent = ZERO THEN "InvalidRequest"
    ELSE "ok"

authorizeAgent(caller, agent, agentType) ==
    LET res == authorizeAgentResult(caller, agent) IN
    /\ IF res = "ok"
       THEN /\ authorizedAgents' = authorizedAgents \cup {agent}
            /\ agentTypes' = [agentTypes EXCEPT ![agent] = agentType]
            /\ agentRole' = agentRole \cup {agent}
       ELSE UNCHANGED <<authorizedAgents, agentTypes, agentRole>>
    /\ UNCHANGED <<extVars, cmVars, spVars>>
    /\ UNCHANGED <<now, paused, agentRequests, agentRequestCounts,
                   userRequestsPerHour, controllerEth, requestEvents>>
    /\ UNCHANGED <<bcVars, variantVars, callVars>>

revokeAgentResult(caller) ==
    IF caller \notin DefaultAdminRole THEN "AccessControlUnauthorizedAccount"
    ELSE "ok"

revokeAgent(caller, agent) ==
    LET res == revokeAgentResult(caller) IN
    /\ IF res = "ok"
       THEN /\ authorizedAgents' = authorizedAgents \ {agent}
            /\ agentTypes' = [agentTypes EXCEPT ![agent] = ""]
            /\ agentRole' = agentRole \ {agent}
       ELSE UNCHANGED <<authorizedAgents, agentTypes, agentRole>>
    /\ UNCHANGED <<extVars, cmVars, spVars>>
    /\ UNCHANGED <<now, paused, agentRequests, agentRequestCounts,
                   userRequestsPerHour, controllerEth, requestEvents>>
    /\ UNCHANGED <<bcVars, variantVars, callVars>>

\* mutant: the whenNotPaused modifier is missing
createAgentRequestResult_NoPauseCheck(caller, user, expiry) ==
    IF caller \notin agentRole THEN "AccessControlUnauthorizedAccount"
    ELSE IF user = ZERO THEN "InvalidRequest"
    ELSE IF expiry <= now \/ expiry > now + ONE_DAY THEN "InvalidExpiry"
    ELSE IF RequestsPerHour(user, currentHour) >= MAX_REQUESTS_PER_HOUR
         THEN "RateLimitExceeded"
    ELSE "ok"

\* mutant: the limit is compared with > instead of >=
createAgentRequestResult_OffByOne(caller, user, expiry) ==
    IF caller \notin agentRole THEN "AccessControlUnauthorizedAccount"
    ELSE IF paused THEN "EnforcedPause"
    ELSE IF user = ZERO THEN "InvalidRequest"
    ELSE IF expiry <= now \/ expiry > now + ONE_DAY THEN "InvalidExpiry"
    ELSE IF RequestsPerHour(user, currentHour) > MAX_REQUESTS_PER_HOUR
         THEN "RateLimitExceeded"
    ELSE "ok"

\* modifiers onlyRole(AGENT_ROLE) whenNotPaused, then the body's checks in order
createAgentRequestResult(caller, user, expiry) ==
    IF caller \notin agentRole THEN "AccessControlUnauthorizedAccount"
    ELSE IF paused THEN "EnforcedPause"
    ELSE IF user = ZERO THEN "InvalidRequest"
    ELSE IF expiry <= now \/ expiry > now + ONE_DAY THEN "InvalidExpiry"
    ELSE IF RequestsPerHour(user, currentHour) >= MAX_REQUESTS_PER_HOUR
         THEN "RateLimitExceeded"
    ELSE "ok"

createAgentRequest(caller, user, actionData, expiry, value) ==
    LET res == createAgentRequestResult(caller, user, expiry) IN
    /\ IF res = "ok"
       THEN /\ agentRequests' =
                   (RequestId(caller) :>
                       [user |-> user, agent |-> caller, actionData |-> actionData,
                        timestamp |-> now, expiry |-> expiry, executed |-> FALSE,
                        value |-> value])
                   @@ agentRequests
            /\ agentRequestCounts' =
                   [agentRequestCounts EXCEPT ![caller] = @ + 1]
            /\ userRequestsPerHour' =
                   (<<user, currentHour>> :> (RequestsPerHour(user, currentHour) + 1))
                   @@ userRequestsPerHour
            /\ controllerEth' = controllerEth + value
       ELSE UNCHANGED <<agentRequests, agentRequestCounts, userRequestsPerHour,
                        controllerEth>>
    /\ UNCHANGED <<extVars, cmVars, spVars>>
    /\ UNCHANGED <<now, paused, agentRole, authorizedAgents, agentTypes, requestEvents>>
    /\ UNCHANGED <<bcVars, variantVars, callVars>>

\* mutant: the executed flag is not checked
executeAgentRequestResult_NoReplayCheck(caller, id) ==
    IF paused THEN "EnforcedPause"
    ELSE IF caller # Req(id).user /\ caller \notin ExecutorRole THEN "UnauthorizedAgent"
    ELSE IF now > Req(id).expiry THEN "RequestExpired"
    ELSE "ok"

\* mutant: the expiry is not checked
executeAgentRequestResult_NoExpiryCheck(caller, id) ==
    IF paused THEN "EnforcedPause"
    ELSE IF caller # Req(id).user /\ caller \notin ExecutorRole THEN "UnauthorizedAgent"
    ELSE IF Req(id).executed THEN "RequestAlreadyExecuted"
    ELSE "ok"

\* modifiers nonReentrant whenNotPaused, then the body's checks in order
executeAgentRequestResult(caller, id) ==
    IF paused THEN "EnforcedPause"
    ELSE IF caller # Req(id).user /\ caller \notin ExecutorRole THEN "UnauthorizedAgent"
    ELSE IF Req(id).executed THEN "RequestAlreadyExecuted"
    ELSE IF now > Req(id).expiry THEN "RequestExpired"
    ELSE "ok"

\* address(this).call{value: request.value}(request.actionData).  The caller
\* of the inner call is the controller itself, which holds no role; the
\* controller's guard is entered; a function that is not payable rejects a
\* call that carries value.  Calldata that matches no function reaches
\* receive() or fallback(), which accept anything.
selfCallSucceeds(actionData, value) ==
    CASE actionData = "emergencyPause()" ->
             value = 0 /\ Controller \in EmergencyRole /\ ~paused
      [] actionData = "executeAgentRequest(bytes32)" -> FALSE
      [] OTHER -> TRUE

\* The low-level self-call forwards the value to the controller itself; its
\* outcome is reported in the event and nowhere else.
executeAgentRequest(caller, id) ==
    LET res == executeAgentRequestResult(caller, id) IN
    /\ IF res = "ok"
       THEN /\ agentRequests' = [agentRequests EXCEPT ![id].executed = TRUE]
            /\ requestEvents' = requestEvents \cup {<<"RequestExecuted", id>>}
            /\ selfCalls' = (id :> selfCallSucceeds(Req(id).actionData, Req(id).value))
                                @@ selfCalls
       ELSE UNCHANGED <<agentRequests, requestEvents, selfCalls>>
    /\ UNCHANGED <<extVars, cmVars, spVars>>
    /\ UNCHANGED <<now, paused, agentRole, authorizedAgents, agentTypes,
                   agentRequestCounts, userRequestsPerHour, controllerEth>>
    /\ UNCHANGED <<bcVars, variantVars, guardStatus, inFlight>>

\* cancelRequest that does not test the executed flag
cancelRequestResult_ExecutedNotChecked(caller, id) ==
    IF caller # Req(id).user THEN "UnauthorizedAgent"
    ELSE "ok"

cancelRequestResult(caller, id) ==
    IF caller # Req(id).user THEN "UnauthorizedAgent"
    ELSE IF Req(id).executed THEN "RequestAlreadyExecuted"
    ELSE "ok"

\* request.user is an externally owned account: the refund transfer succeeds
cancelRequest(caller, id) ==
    LET res == cancelRequestResult(caller, id) IN
    /\ IF res = "ok"
       THEN /\ agentRequests' = [agentRequests EXCEPT ![id].executed = TRUE]
            /\ controllerEth' = controllerEth - Req(id).value
            /\ requestEvents' = requestEvents \cup {<<"RequestCancelled", id>>}
       ELSE UNCHANGED <<agentRequests, controllerEth, requestEvents>>
    /\ UNCHANGED <<extVars, cmVars, spVars>>
    /\ UNCHANGED <<now, paused, agentRole, authorizedAgents, agentTypes,
                   agentRequestCounts, userRequestsPerHour>>
    /\ UNCHANGED <<bcVars, variantVars, callVars>>

emergencyPauseResult(caller) ==
    IF caller \notin EmergencyRole THEN "AccessControlUnauthorizedAccount"
    ELSE IF paused THEN "EnforcedPause"
    ELSE "ok"

emergencyPause(caller) ==
    LET res == emergencyPauseResult(caller) IN
    /\ paused' = (IF res = "ok" THEN TRUE ELSE paused)
    /\ UNCHANGED <<extVars, cmVars, spVars>>
    /\ UNCHANGED <<now, agentRole, authorizedAgents, agentTypes, agentRequests,
                   agentRequestCounts, userRequestsPerHour, controllerEth,
                   requestEvents>>
    /\ UNCHANGED <<bcVars, variantVars, callVars>>

unpauseResult(caller) ==
    IF caller \notin DefaultAdminRole THEN "AccessControlUnauthorizedAccount"
    ELSE IF ~paused THEN "ExpectedPause"
    ELSE "ok"

unpause(caller) ==
    LET res == unpauseResult(caller) IN
    /\ paused' = (IF res = "ok" THEN FALSE ELSE paused)
    /\ UNCHANGED <<extVars, cmVars, spVars>>
    /\ UNCHANGED <<now, agentRole, authorizedAgents, agentTypes, agentRequests,
                   agentRequestCounts, userRequestsPerHour, controllerEth,
                   requestEvents>>
    /\ UNCHANGED <<bcVars, variantVars, callVars>>

\* mutant: the view allows the count to reach the limit
checkRateLimit_AtLimit(user) == RequestsPerHour(user, currentHour) <= MAX_REQUESTS_PER_HOUR

\* view: checkRateLimit(user)
checkRateLimit(user) == RequestsPerHour(user, currentHour) < MAX_REQUESTS_PER_HOUR

(***************************************************************************)
(* Fixed-point helpers.  Solidity computes in uint256; the model's integers *)
(* are narrower, so a quotient whose numerator and denominator share a      *)
(* power of ten is evaluated after cancelling it.  The result is the same   *)
(* integer: floor((x * 10^k) / (y * 10^k)) = floor(x / y).                  *)
(***************************************************************************)
RECURSIVE Pow10(_)
Pow10(n) == IF n = 0 THEN 1 ELSE 10 * Pow10(n - 1)

(***************************************************************************)
(* ERC20 tokens (MockERC20 / PYUSD) and the Pyth oracle (MockPyth)          *)
(***************************************************************************)
PYUSD_MAINNET == "PYUSD_MAINNET"
PYUSD_SEPOLIA == "PYUSD_SEPOLIA"
STK == "STK"                      \* the test suite's staking token
Tokens == {PYUSD_MAINNET, PYUSD_SEPOLIA, STK}

CM == "collateralManager"
SP == "stakingProxy"
FeeRecipient == "feeRecipient"
Treasury == "treasury"
Users == {U1, U2}
Holders == Users \cup {CM, SP, FeeRecipient, Treasury}

PYUSD_USD == "PYUSD/USD"
ETH_USD == "ETH/USD"
USDC_USD == "USDC/USD"
PriceIds == {PYUSD_USD, ETH_USD, USDC_USD}

\* ETH amounts are counted in units of the oracle's update fee (0.01 ether)
updateFee == 1

\* the zero-initialised Price struct (conf is never read by the contracts)
ZeroPrice == [price |-> 0, expo |-> 0, publishTime |-> 0]

\* MockPyth.updatePriceFeeds: three fixed quotes published at the current time.
\* A quote (p * 10^8, -8) is stored as (p, 0): CollateralManager divides
\* balance * price by 10^decimals * 10^(-expo), so both give the same value
\* and the same sign of price.
updatePriceFeeds ==
    [id \in PriceIds |->
        [price |-> IF id = ETH_USD THEN 2000 ELSE 1, expo |-> 0, publishTime |-> now]]

\* MockPyth.setPrice(id, price, expo): callable by anyone
setPrice(id, price, expo) ==
    /\ pythPrices' = [pythPrices EXCEPT
                         ![id] = [price |-> price, expo |-> expo, publishTime |-> now]]
    /\ UNCHANGED <<now, ctlVars, balanceOf, cmVars, spVars>>
    /\ UNCHANGED <<bcVars, variantVars, callVars>>

\* ERC20 transfer of `amount` of `token`; the caller has checked the balance
Transfer(bal, token, from, to, amount) ==
    IF from = to THEN bal
    ELSE [bal EXCEPT ![token][from] = @ - amount, ![token][to] = @ + amount]

(***************************************************************************)
(* ReentrancyGuard.  A transaction runs alone, so between transactions      *)
(* every guard is NOT_ENTERED.  Inside a transaction a guarded function can *)
(* be suspended at a token transfer: the token's code then holds control    *)
(* and may call back into the contracts before the transfer returns.        *)
(***************************************************************************)
NOT_ENTERED == "NOT_ENTERED"
ENTERED == "ENTERED"
Contracts == {Controller, CM, SP, BC}

\* no call is suspended
NoCall == [contract |-> ZERO, op |-> "", caller |-> ZERO, token |-> ZERO, amount |-> 0]

\* mutant: the guard lets every call through
nonReentrant_Open(contract) == "ok"

\* modifier nonReentrant, before the body
nonReentrant(contract) ==
    IF guardStatus[contract] = ENTERED THEN "ReentrancyGuardReentrantCall" ELSE "ok"

\* modifier nonReentrant, after the body: the guard is released; a call of
\* this contract that was suspended is the call that returns
leaveGuard(contract) ==
    /\ guardStatus' = [guardStatus EXCEPT ![contract] = NOT_ENTERED]
    /\ inFlight' = (IF inFlight.contract = contract THEN NoCall ELSE inFlight)
    /\ UNCHANGED selfCalls

(***************************************************************************)
(* CollateralManager                                                       *)
(***************************************************************************)
COLLATERAL_RATIO == 15000
LIQUIDATION_THRESHOLD == 13000
BASIS_POINTS == 10000
STALE_PRICE_THRESHOLD == 3600
\* PRICE_PRECISION = 10^8 and the 100 of the stablecoin formula, as exponents
PRICE_PRECISION_DIGITS == 8
\* the common factor of BASIS_POINTS, COLLATERAL_RATIO and LIQUIDATION_THRESHOLD
RatioUnit == 1000

\* maxDepositAmount m * 10^e is stored as <<m, e>>
PYUSD_MAX_DEPOSIT == <<1000000, 6>>
\* amount > m * 10^e
ExceedsMax(amount, max) ==
    LET q == amount \div Pow10(max[2]) IN
    q > max[1] \/ (q = max[1] /\ amount % Pow10(max[2]) > 0)

ZeroConfig ==
    [pythPriceId |-> "", decimals |-> 0, isSupported |-> FALSE,
     liquidationThreshold |-> 0, maxDepositAmount |-> <<0, 0>>,
     isStablecoin |-> FALSE]

PyusdConfig ==
    [pythPriceId |-> PYUSD_USD, decimals |-> 6, isSupported |-> TRUE,
     liquidationThreshold |-> 9500, maxDepositAmount |-> PYUSD_MAX_DEPOSIT,
     isStablecoin |-> TRUE]

ZeroPosition ==
    [tokenBalances |-> [t \in Tokens |-> 0], totalValueUSD |-> 0,
     lastPriceUpdate |-> 0, isActive |-> FALSE, depositCount |-> 0]

\* block.chainid: Sepolia
chainid == 11155111
getPYUSDAddress == IF chainid = 1 THEN PYUSD_MAINNET ELSE PYUSD_SEPOLIA

\* stablecoin: (balance * 99 * PRICE_PRECISION) / (100 * 10^decimals),
\* with 10^6 = PRICE_PRECISION / 100 cancelled against 10^decimals
StableValue(balance, decimals) ==
    IF decimals <= PRICE_PRECISION_DIGITS - 2
    THEN balance * 99 * Pow10(PRICE_PRECISION_DIGITS - 2 - decimals)
    ELSE (balance * 99) \div Pow10(decimals - (PRICE_PRECISION_DIGITS - 2))

\* non-stablecoin: balance * price * 10^expo / 10^decimals
QuotedValue(balance, decimals, quote) ==
    IF quote.expo >= 0
    THEN (balance * quote.price * Pow10(quote.expo)) \div Pow10(decimals)
    ELSE (balance * quote.price) \div (Pow10(decimals) * Pow10(-quote.expo))

\* the USD value of one token balance
valueUSD(config, balance, quotes) ==
    IF config.isStablecoin THEN StableValue(balance, config.decimals)
    ELSE QuotedValue(balance, config.decimals, quotes[config.pythPriceId])

TokenValue_StaleAtThreshold(config, balance, quotes) ==
    LET quote == quotes[config.pythPriceId] IN
    IF balance = 0 THEN [err |-> "ok", value |-> 0]
    ELSE IF config.isStablecoin
    THEN [err |-> "ok", value |-> valueUSD(config, balance, quotes)]
    ELSE IF quote.price <= 0 THEN [err |-> "InvalidPriceUpdate", value |-> 0]
    ELSE IF now >= quote.publishTime + STALE_PRICE_THRESHOLD
    THEN [err |-> "StalePrice", value |-> 0]
    ELSE [err |-> "ok", value |-> valueUSD(config, balance, quotes)]

\* the body of the loop of _updatePositionValue for one token
TokenValue(config, balance, quotes) ==
    LET quote == quotes[config.pythPriceId] IN
    IF balance = 0 THEN [err |-> "ok", value |-> 0]
    ELSE IF config.isStablecoin
    THEN [err |-> "ok", value |-> valueUSD(config, balance, quotes)]
    ELSE IF quote.price <= 0 THEN [err |-> "InvalidPriceUpdate", value |-> 0]
    ELSE IF now > quote.publishTime + STALE_PRICE_THRESHOLD
    THEN [err |-> "StalePrice", value |-> 0]
    ELSE [err |-> "ok", value |-> valueUSD(config, balance, quotes)]

\* _updatePositionValue: the loop over supportedTokens from index i on
RECURSIVE PositionValueFrom(_, _, _, _, _)
PositionValueFrom(i, toks, configs, balances, quotes) ==
    IF i > Len(toks) THEN [err |-> "ok", value |-> 0]
    ELSE LET tv == TokenValue(configs[toks[i]], balances[toks[i]], quotes)
             rest == PositionValueFrom(i + 1, toks, configs, balances, quotes)
         IN IF tv.err # "ok" THEN tv
            ELSE IF rest.err # "ok" THEN rest
            ELSE [err |-> "ok", value |-> tv.value + rest.value]

PositionValue(balances, quotes) ==
    PositionValueFrom(1, supportedTokens, tokenConfigs, balances, quotes)

\* _updatePrices: with update data the oracle is paid its fee and publishes
updatePricesResult(hasUpdate, value) ==
    IF hasUpdate /\ value < updateFee THEN "InvalidPriceUpdate" ELSE "ok"

QuotesAfter(hasUpdate) == IF hasUpdate THEN updatePriceFeeds ELSE pythPrices

\* ETH the CollateralManager keeps from msg.value: with update data the fee
\* goes to the oracle and the excess back to the caller; without update data
\* _updatePrices returns at once and nothing is sent back
EthKept(hasUpdate, value) == IF hasUpdate THEN 0 ELSE value

getCollateralValue(user) == positions[user].totalValueUSD
getTokenBalance(user, token) == positions[user].tokenBalances[token]

canStake_LiquidationRatio(user, stakeValueUSD) ==
    getCollateralValue(user) * (BASIS_POINTS \div RatioUnit)
        >= stakeValueUSD * (LIQUIDATION_THRESHOLD \div RatioUnit)

\* collateralValue * BASIS_POINTS >= stakeValueUSD * COLLATERAL_RATIO
canStake(user, stakeValueUSD) ==
    getCollateralValue(user) * (BASIS_POINTS \div RatioUnit)
        >= stakeValueUSD * (COLLATERAL_RATIO \div RatioUnit)

\* collateralValue * BASIS_POINTS < stakeValueUSD * LIQUIDATION_THRESHOLD
canLiquidate(user, stakeValueUSD) ==
    getCollateralValue(user) * (BASIS_POINTS \div RatioUnit)
        < stakeValueUSD * (LIQUIDATION_THRESHOLD \div RatioUnit)

FeeOf_RoundUp(amount, feeBps) ==
    (amount * feeBps + BASIS_POINTS - 1) \div BASIS_POINTS

\* (amount * feeBps) / BASIS_POINTS
FeeOf(amount, feeBps) == (amount * feeBps) \div BASIS_POINTS

BalancesAfterDeposit(caller, token, amount) ==
    [positions[caller].tokenBalances EXCEPT
        ![token] = @ + (amount - FeeOf(amount, depositFee))]

\* the checks of depositCollateral in the order the code makes them; the
\* caller has approved the CollateralManager for the amount
\* mutant: the amount is checked before the token
depositCollateralResult_AmountFirst(caller, token, amount, hasUpdate, value) ==
    IF amount = 0 THEN "InvalidAmount"
    ELSE IF ~tokenConfigs[token].isSupported THEN "TokenNotSupported"
    ELSE IF ExceedsMax(amount, tokenConfigs[token].maxDepositAmount)
    THEN "ExceedsMaxDeposit"
    ELSE IF updatePricesResult(hasUpdate, value) # "ok" THEN "InvalidPriceUpdate"
    ELSE IF balanceOf[token][caller] < amount THEN "ERC20InsufficientBalance"
    ELSE PositionValue(BalancesAfterDeposit(caller, token, amount),
                       QuotesAfter(hasUpdate)).err

depositCollateralResult(caller, token, amount, hasUpdate, value) ==
    IF ~tokenConfigs[token].isSupported THEN "TokenNotSupported"
    ELSE IF amount = 0 THEN "InvalidAmount"
    ELSE IF ExceedsMax(amount, tokenConfigs[token].maxDepositAmount)
    THEN "ExceedsMaxDeposit"
    ELSE IF updatePricesResult(hasUpdate, value) # "ok" THEN "InvalidPriceUpdate"
    ELSE IF balanceOf[token][caller] < amount THEN "ERC20InsufficientBalance"
    ELSE PositionValue(BalancesAfterDeposit(caller, token, amount),
                       QuotesAfter(hasUpdate)).err

\* the checks of depositPYUSD in the order the code makes them
depositPYUSDResult(caller, amount, hasUpdate, value) ==
    IF amount = 0 THEN "InvalidAmount"
    ELSE IF ~tokenConfigs[getPYUSDAddress].isSupported THEN "TokenNotSupported"
    ELSE IF updatePricesResult(hasUpdate, value) # "ok" THEN "InvalidPriceUpdate"
    ELSE IF ExceedsMax(amount, tokenConfigs[getPYUSDAddress].maxDepositAmount)
    THEN "ExceedsMaxDeposit"
    ELSE IF balanceOf[getPYUSDAddress][caller] < amount THEN "ERC20InsufficientBalance"
    ELSE PositionValue(BalancesAfterDeposit(caller, getPYUSDAddress, amount),
                       QuotesAfter(hasUpdate)).err

\* mutant: depositCount is not incremented
CreditDeposit_NotCounted(caller, token, amount, hasUpdate, value) ==
    LET fee == FeeOf(amount, depositFee)
        netAmount == amount - fee
        balances == BalancesAfterDeposit(caller, token, amount)
        quotes == QuotesAfter(hasUpdate)
    IN
    /\ pythPrices' = quotes
    /\ cmEth' = cmEth + EthKept(hasUpdate, value)
    /\ balanceOf' = Transfer(Transfer(balanceOf, token, caller, CM, amount),
                             token, CM, feeRecipient, fee)
    /\ positions' = [positions EXCEPT
           ![caller] = [tokenBalances |-> balances,
                        totalValueUSD |-> PositionValue(balances, quotes).value,
                        lastPriceUpdate |-> now,
                        isActive |-> TRUE,
                        depositCount |-> @.depositCount]]
    /\ collateralLedger' =
           [collateralLedger EXCEPT ![caller][token].deposited = @ + netAmount]
    /\ quotesSeen' = [quotesSeen EXCEPT ![caller] = quotes]

\* the state change both deposit functions make once their checks have passed
CreditDeposit(caller, token, amount, hasUpdate, value) ==
    LET fee == FeeOf(amount, depositFee)
        netAmount == amount - fee
        balances == BalancesAfterDeposit(caller, token, amount)
        quotes == QuotesAfter(hasUpdate)
    IN
    /\ pythPrices' = quotes
    /\ cmEth' = cmEth + EthKept(hasUpdate, value)
    /\ balanceOf' = Transfer(Transfer(balanceOf, token, caller, CM, amount),
                             token, CM, feeRecipient, fee)
    /\ positions' = [positions EXCEPT
           ![caller] = [tokenBalances |-> balances,
                        totalValueUSD |-> PositionValue(balances, quotes).value,
                        lastPriceUpdate |-> now,
                        isActive |-> TRUE,
                        depositCount |-> @.depositCount + 1]]
    /\ collateralLedger' =
           [collateralLedger EXCEPT ![caller][token].deposited = @ + netAmount]
    /\ quotesSeen' = [quotesSeen EXCEPT ![caller] = quotes]

depositCollateral(caller, token, amount, hasUpdate, value) ==
    LET res == depositCollateralResult(caller, token, amount, hasUpdate, value) IN
    /\ IF res = "ok"
       THEN CreditDeposit(caller, token, amount, hasUpdate, value)
       ELSE UNCHANGED <<pythPrices, cmEth, balanceOf, positions, collateralLedger,
                        quotesSeen>>
    /\ UNCHANGED <<now, ctlVars, spVars, tokenConfigs, supportedTokens, depositFee,
                   withdrawalFee, feeRecipient>>
    /\ leaveGuard(CM)
    /\ UNCHANGED <<bcVars, variantVars>>

depositPYUSD(caller, amount, hasUpdate, value) ==
    LET res == depositPYUSDResult(caller, amount, hasUpdate, value) IN
    /\ IF res = "ok"
       THEN CreditDeposit(caller, getPYUSDAddress, amount, hasUpdate, value)
       ELSE UNCHANGED <<pythPrices, cmEth, balanceOf, positions, collateralLedger,
                        quotesSeen>>
    /\ UNCHANGED <<now, ctlVars, spVars, tokenConfigs, supportedTokens, depositFee,
                   withdrawalFee, feeRecipient>>
    /\ leaveGuard(CM)
    /\ UNCHANGED <<bcVars, variantVars>>

\* mutant: the balance is debited by what the user receives, not by `amount`
BalancesAfterWithdraw_Net(caller, token, amount) ==
    [positions[caller].tokenBalances EXCEPT
        ![token] = @ - (amount - FeeOf(amount, withdrawalFee))]

BalancesAfterWithdraw(caller, token, amount) ==
    [positions[caller].tokenBalances EXCEPT ![token] = @ - amount]

\* mutant: the withdrawal is refused when the remaining collateral no longer
\* supports the caller's stake
withdrawCollateralResult_HealthChecked(caller, token, amount, hasUpdate, value) ==
    IF ~tokenConfigs[token].isSupported THEN "TokenNotSupported"
    ELSE IF amount = 0 THEN "InvalidAmount"
    ELSE IF positions[caller].tokenBalances[token] < amount THEN "InsufficientBalance"
    ELSE IF updatePricesResult(hasUpdate, value) # "ok" THEN "InvalidPriceUpdate"
    ELSE IF PositionValue(BalancesAfterWithdraw(caller, token, amount),
                          QuotesAfter(hasUpdate)).err # "ok"
    THEN PositionValue(BalancesAfterWithdraw(caller, token, amount),
                       QuotesAfter(hasUpdate)).err
    ELSE IF PositionValue(BalancesAfterWithdraw(caller, token, amount),
                          QuotesAfter(hasUpdate)).value * (BASIS_POINTS \div RatioUnit)
                < stakingPositions[caller].stakedAmount
                      * (COLLATERAL_RATIO \div RatioUnit)
    THEN "InsufficientCollateral"
    ELSE IF balanceOf[token][CM] < amount THEN "ERC20InsufficientBalance"
    ELSE "ok"

withdrawCollateralResult(caller, token, amount, hasUpdate, value) ==
    IF ~tokenConfigs[token].isSupported THEN "TokenNotSupported"
    ELSE IF amount = 0 THEN "InvalidAmount"
    ELSE IF positions[caller].tokenBalances[token] < amount THEN "InsufficientBalance"
    ELSE IF updatePricesResult(hasUpdate, value) # "ok" THEN "InvalidPriceUpdate"
    ELSE IF PositionValue(BalancesAfterWithdraw(caller, token, amount),
                          QuotesAfter(hasUpdate)).err # "ok"
    THEN PositionValue(BalancesAfterWithdraw(caller, token, amount),
                       QuotesAfter(hasUpdate)).err
    ELSE IF balanceOf[token][CM] < amount THEN "ERC20InsufficientBalance"
    ELSE "ok"

withdrawCollateral(caller, token, amount, hasUpdate, value) ==
    LET res == withdrawCollateralResult(caller, token, amount, hasUpdate, value)
        fee == FeeOf(amount, withdrawalFee)
        netAmount == amount - fee
        balances == BalancesAfterWithdraw(caller, token, amount)
        quotes == QuotesAfter(hasUpdate)
    IN
    /\ IF res = "ok"
       THEN /\ pythPrices' = quotes
            /\ cmEth' = cmEth + EthKept(hasUpdate, value)
            /\ positions' = [positions EXCEPT
                   ![caller].tokenBalances = balances,
                   ![caller].totalValueUSD = PositionValue(balances, quotes).value,
                   ![caller].lastPriceUpdate = now]
            /\ balanceOf' = Transfer(Transfer(balanceOf, token, CM, caller, netAmount),
                                     token, CM, feeRecipient, fee)
            /\ collateralLedger' =
                   [collateralLedger EXCEPT
                       ![caller][token].withdrawn = @ + netAmount,
                       ![caller][token].withdrawalFees = @ + fee]
            /\ quotesSeen' = [quotesSeen EXCEPT ![caller] = quotes]
       ELSE UNCHANGED <<pythPrices, cmEth, balanceOf, positions, collateralLedger,
                        quotesSeen>>
    /\ UNCHANGED <<now, ctlVars, spVars, tokenConfigs, supportedTokens, depositFee,
                   withdrawalFee, feeRecipient>>
    /\ leaveGuard(CM)
    /\ UNCHANGED <<bcVars, variantVars>>

onlyOwner(caller) == IF caller # Owner THEN "OwnableUnauthorizedAccount" ELSE "ok"

\* _addSupportedToken returns without effect when the token is supported
addSupportedToken(caller, token, pythPriceId, decimals, liquidationThreshold, maxDepositAmount, isStablecoin) ==
    /\ IF onlyOwner(caller) = "ok" /\ ~tokenConfigs[token].isSupported
       THEN /\ tokenConfigs' = [tokenConfigs EXCEPT ![token] =
                   [pythPriceId |-> pythPriceId, decimals |-> decimals,
                    isSupported |-> TRUE,
                    liquidationThreshold |-> liquidationThreshold,
                    maxDepositAmount |-> maxDepositAmount,
                    isStablecoin |-> isStablecoin]]
            /\ supportedTokens' = Append(supportedTokens, token)
       ELSE UNCHANGED <<tokenConfigs, supportedTokens>>
    /\ UNCHANGED <<now, ctlVars, extVars, spVars, positions, depositFee,
                   withdrawalFee, feeRecipient, cmEth, collateralLedger, quotesSeen>>
    /\ UNCHANGED <<bcVars, variantVars, callVars>>

removeSupportedTokenResult(caller, token) ==
    IF onlyOwner(caller) # "ok" THEN onlyOwner(caller)
    ELSE IF ~tokenConfigs[token].isSupported THEN "TokenNotSupported"
    ELSE "ok"

\* the array after the loop of removeSupportedToken: the first occurrence is
\* overwritten by the last element and the array is popped
\* removeSupportedToken's loop without the swap: the last entry is popped
\* whichever entry matched
RemoveFromArray_PopOnly(toks, token) ==
    IF \A i \in 1..Len(toks) : toks[i] # token THEN toks
    ELSE SubSeq(toks, 1, Len(toks) - 1)

RemoveFromArray(toks, token) ==
    IF \A i \in 1..Len(toks) : toks[i] # token THEN toks
    ELSE LET i == CHOOSE k \in 1..Len(toks) :
                      toks[k] = token /\ \A j \in 1..(k - 1) : toks[j] # token
         IN SubSeq([toks EXCEPT ![i] = toks[Len(toks)]], 1, Len(toks) - 1)

\* no position is revalued
removeSupportedToken(caller, token) ==
    /\ IF removeSupportedTokenResult(caller, token) = "ok"
       THEN /\ tokenConfigs' = [tokenConfigs EXCEPT ![token].isSupported = FALSE]
            /\ supportedTokens' = RemoveFromArray(supportedTokens, token)
       ELSE UNCHANGED <<tokenConfigs, supportedTokens>>
    /\ UNCHANGED <<now, ctlVars, extVars, spVars, positions, depositFee,
                   withdrawalFee, feeRecipient, cmEth, collateralLedger, quotesSeen>>
    /\ UNCHANGED <<bcVars, variantVars, callVars>>

\* mutant: rejected only when both fees exceed the cap
updateFeesResult_BothTooHigh(caller, newDepositFee, newWithdrawalFee) ==
    IF onlyOwner(caller) # "ok" THEN onlyOwner(caller)
    ELSE IF ~(newDepositFee <= 500 \/ newWithdrawalFee <= 500) THEN "Fee too high"
    ELSE "ok"

updateFeesResult(caller, newDepositFee, newWithdrawalFee) ==
    IF onlyOwner(caller) # "ok" THEN onlyOwner(caller)
    ELSE IF ~(newDepositFee <= 500 /\ newWithdrawalFee <= 500) THEN "Fee too high"
    ELSE "ok"

updateFees(caller, newDepositFee, newWithdrawalFee) ==
    /\ IF updateFeesResult(caller, newDepositFee, newWithdrawalFee) = "ok"
       THEN /\ depositFee' = newDepositFee
            /\ withdrawalFee' = newWithdrawalFee
       ELSE UNCHANGED <<depositFee, withdrawalFee>>
    /\ UNCHANGED <<now, ctlVars, extVars, spVars, positions, tokenConfigs,
                   supportedTokens, feeRecipient, cmEth, collateralLedger, quotesSeen>>
    /\ UNCHANGED <<bcVars, variantVars, callVars>>

updateFeeRecipientResult(caller, recipient) ==
    IF onlyOwner(caller) # "ok" THEN onlyOwner(caller)
    ELSE IF recipient = ZERO THEN "InvalidFeeRecipient"
    ELSE "ok"

updateFeeRecipient(caller, recipient) ==
    /\ feeRecipient' = (IF updateFeeRecipientResult(caller, recipient) = "ok"
                        THEN recipient ELSE feeRecipient)
    /\ UNCHANGED <<now, ctlVars, extVars, spVars, positions, tokenConfigs,
                   supportedTokens, depositFee, withdrawalFee, cmEth,
                   collateralLedger, quotesSeen>>
    /\ UNCHANGED <<bcVars, variantVars, callVars>>

\* every user holds InitialWallet of every token; nothing else holds any
InitialWallet == 50000

ExtInit ==
    /\ balanceOf = [t \in Tokens |->
                       [h \in Holders |-> IF h \in Users THEN InitialWallet ELSE 0]]
    /\ pythPrices = [id \in PriceIds |-> ZeroPrice]

\* constructor: both PYUSD addresses are supported, in this order
CmInit ==
    /\ positions = [u \in Users |-> ZeroPosition]
    /\ tokenConfigs = [t \in Tokens |->
                          IF t \in {PYUSD_MAINNET, PYUSD_SEPOLIA}
                          THEN PyusdConfig ELSE ZeroConfig]
    /\ supportedTokens = <<PYUSD_MAINNET, PYUSD_SEPOLIA>>
    /\ depositFee = 10
    /\ withdrawalFee = 20
    /\ feeRecipient = FeeRecipient
    /\ cmEth = 0
    /\ collateralLedger =
           [u \in Users |-> [t \in Tokens |->
               [deposited |-> 0, withdrawn |-> 0, withdrawalFees |-> 0]]]
    /\ quotesSeen = [u \in Users |-> [id \in PriceIds |-> ZeroPrice]]

(***************************************************************************)
(* StakingProxy                                                            *)
(***************************************************************************)
SECONDS_PER_YEAR == 31536000
UNSTAKE_DELAY == 604800
AIController == "aiController"

ZeroStake ==
    [stakedAmount |-> 0, stakingToken |-> ZERO, startTime |-> 0,
     lastRewardUpdate |-> 0, accumulatedRewards |-> 0, rewardRate |-> 0,
     isActive |-> FALSE, unstakeRequestTime |-> 0, unstakeRequested |-> FALSE]

\* <<q, r>> with a * b = q * c + r and 0 <= r < c, by binary expansion of b,
\* so that the product a * b itself is never formed
RECURSIVE MulDivMod(_, _, _)
MulDivMod(a, b, c) ==
    IF b = 0 THEN <<0, 0>>
    ELSE LET h == MulDivMod(a, b \div 2, c)
             s == 2 * h[2] + (b % 2) * (a % c)
         IN <<2 * h[1] + (s \div c) + (b % 2) * (a \div c), s % c>>

\* mutant: the accrual is rounded up instead of down
AccruedRewards_RoundUp(stakedAmount, rewardRate, timeStaked) ==
    LET md == MulDivMod(stakedAmount * rewardRate, timeStaked, SECONDS_PER_YEAR)
    IN IF md[2] = 0 /\ md[1] % BASIS_POINTS = 0
       THEN md[1] \div BASIS_POINTS
       ELSE md[1] \div BASIS_POINTS + 1

\* (stakedAmount * rewardRate * timeStaked) / (BASIS_POINTS * SECONDS_PER_YEAR),
\* evaluated as floor(floor(x / SECONDS_PER_YEAR) / BASIS_POINTS), which is the
\* same integer
AccruedRewards(stakedAmount, rewardRate, timeStaked) ==
    MulDivMod(stakedAmount * rewardRate, timeStaked, SECONDS_PER_YEAR)[1]
        \div BASIS_POINTS

\* _updateRewards, on a position value
updateRewards(position) ==
    IF ~position.isActive THEN position
    ELSE [position EXCEPT
             !.accumulatedRewards =
                 @ + AccruedRewards(position.stakedAmount, position.rewardRate,
                                    now - position.lastRewardUpdate),
             !.lastRewardUpdate = now]

\* mutant: a new position is not marked active
updateStakingPosition_NotActivated(position, token, amount) ==
    IF position.isActive
    THEN [updateRewards(position) EXCEPT
             !.stakedAmount = @ + amount, !.lastRewardUpdate = now]
    ELSE [position EXCEPT
             !.stakedAmount = amount, !.stakingToken = token, !.startTime = now,
             !.rewardRate = baseAnnualRewardRate, !.lastRewardUpdate = now]

\* _updateStakingPosition, on a position value
updateStakingPosition(position, token, amount) ==
    IF position.isActive
    THEN [updateRewards(position) EXCEPT
             !.stakedAmount = @ + amount, !.lastRewardUpdate = now]
    ELSE [position EXCEPT
             !.stakedAmount = amount, !.stakingToken = token, !.startTime = now,
             !.isActive = TRUE, !.rewardRate = baseAnnualRewardRate,
             !.lastRewardUpdate = now]

\* mutant: the decoded rate is not clamped
customRate_NoClamp(agentData) ==
    IF Len(agentData) >= 1 THEN agentData[1] ELSE baseAnnualRewardRate

\* agentData is the sequence of its 32-byte words: abi.decode reads the first
customRate(agentData) ==
    IF Len(agentData) >= 1
    THEN (IF agentData[1] > 2000 THEN 2000
          ELSE IF agentData[1] < 100 THEN 100 ELSE agentData[1])
    ELSE baseAnnualRewardRate

\* _updateStakingPositionWithCustomRate, on a position value
updateStakingPositionWithCustomRate(position, token, amount, agentData) ==
    IF position.isActive
    THEN [updateRewards(position) EXCEPT
             !.stakedAmount = @ + amount, !.rewardRate = customRate(agentData),
             !.lastRewardUpdate = now]
    ELSE [position EXCEPT
             !.stakedAmount = amount, !.stakingToken = token, !.startTime = now,
             !.isActive = TRUE, !.rewardRate = customRate(agentData),
             !.lastRewardUpdate = now]

\* _calculateStakeValueUSD
calculateStakeValueUSD(token, amount) ==
    IF token \in {PYUSD_MAINNET, PYUSD_SEPOLIA} THEN amount ELSE amount * 2000

\* mutant: the collateral check is missing
stakeChecks_NoCollateralCheck(user, token, amount) ==
    IF token \notin supportedStakingTokens THEN "TokenNotSupported"
    ELSE IF amount = 0 THEN "InvalidAmount"
    ELSE "ok"

\* the checks shared by the three stake functions, in the code's order
stakeChecks(user, token, amount) ==
    IF token \notin supportedStakingTokens THEN "TokenNotSupported"
    ELSE IF amount = 0 THEN "InvalidAmount"
    ELSE IF ~canStake(user, calculateStakeValueUSD(token, amount))
    THEN "InsufficientCollateral"
    ELSE "ok"

executeStakeAfterBridgeResult(user, token, amount) == stakeChecks(user, token, amount)

\* the caller has approved the StakingProxy for the amount
stakeWithCollateralResult(caller, token, amount) ==
    IF stakeChecks(caller, token, amount) # "ok" THEN stakeChecks(caller, token, amount)
    ELSE IF balanceOf[token][caller] < amount THEN "ERC20InsufficientBalance"
    ELSE "ok"

aiControlledStakeResult_ChecksFirst(caller, user, token, amount) ==
    IF stakeChecks(user, token, amount) # "ok" THEN stakeChecks(user, token, amount)
    ELSE IF caller # AIController THEN "OnlyAIController"
    ELSE "ok"

aiControlledStakeResult(caller, user, token, amount) ==
    IF caller # AIController THEN "OnlyAIController"
    ELSE stakeChecks(user, token, amount)

\* mutant: the token's total is not raised
CreditStake_TotalKept(user, token, amount, position) ==
    /\ stakingPositions' = [stakingPositions EXCEPT ![user] = position]
    /\ liquidStakingBalances' =
           [liquidStakingBalances EXCEPT ![user][token] = @ + amount]
    /\ totalStakedPerToken' = totalStakedPerToken
    /\ rewardLog' = [rewardLog EXCEPT ![user].steady = FALSE]

\* what a successful stake does to the ledger, given the updated position
CreditStake(user, token, amount, position) ==
    /\ stakingPositions' = [stakingPositions EXCEPT ![user] = position]
    /\ liquidStakingBalances' =
           [liquidStakingBalances EXCEPT ![user][token] = @ + amount]
    /\ totalStakedPerToken' = [totalStakedPerToken EXCEPT ![token] = @ + amount]
    /\ rewardLog' = [rewardLog EXCEPT ![user].steady = FALSE]

\* no token moves and the bridgeId is not recorded
executeStakeAfterBridge(user, token, amount) ==
    /\ IF executeStakeAfterBridgeResult(user, token, amount) = "ok"
       THEN CreditStake(user, token, amount,
                        updateStakingPosition(stakingPositions[user], token, amount))
       ELSE UNCHANGED <<stakingPositions, liquidStakingBalances,
                        totalStakedPerToken, rewardLog>>
    /\ UNCHANGED <<now, ctlVars, extVars, cmVars, supportedStakingTokens,
                   baseAnnualRewardRate, protocolFeeRate, totalProtocolRewards>>
    /\ UNCHANGED <<bcVars, variantVars, callVars>>

stakeWithCollateral(caller, token, amount) ==
    /\ IF stakeWithCollateralResult(caller, token, amount) = "ok"
       THEN /\ balanceOf' = Transfer(balanceOf, token, caller, SP, amount)
            /\ CreditStake(caller, token, amount,
                           updateStakingPosition(stakingPositions[caller], token, amount))
       ELSE UNCHANGED <<balanceOf, stakingPositions, liquidStakingBalances,
                        totalStakedPerToken, rewardLog>>
    /\ UNCHANGED <<now, ctlVars, pythPrices, cmVars, supportedStakingTokens,
                   baseAnnualRewardRate, protocolFeeRate, totalProtocolRewards>>
    /\ leaveGuard(SP)
    /\ UNCHANGED <<bcVars, variantVars>>

\* no token moves
aiControlledStake(caller, user, token, amount, agentData) ==
    /\ IF aiControlledStakeResult(caller, user, token, amount) = "ok"
       THEN CreditStake(user, token, amount,
                        updateStakingPositionWithCustomRate(
                            stakingPositions[user], token, amount, agentData))
       ELSE UNCHANGED <<stakingPositions, liquidStakingBalances,
                        totalStakedPerToken, rewardLog>>
    /\ UNCHANGED <<now, ctlVars, extVars, cmVars, supportedStakingTokens,
                   baseAnnualRewardRate, protocolFeeRate, totalProtocolRewards>>
    /\ UNCHANGED <<bcVars, variantVars, callVars>>

requestUnstakeResult(caller, amount) ==
    IF ~stakingPositions[caller].isActive THEN "StakeNotActive"
    ELSE IF stakingPositions[caller].stakedAmount < amount THEN "InsufficientStake"
    ELSE "ok"

\* mutant: a request made while another is pending keeps the earlier time
RequestedPosition_KeepsFirst(position) ==
    [updateRewards(position) EXCEPT
        !.unstakeRequested = TRUE,
        !.unstakeRequestTime = IF position.unstakeRequested THEN @ ELSE now]

\* what requestUnstake does to the position
RequestedPosition(position) ==
    [updateRewards(position) EXCEPT
        !.unstakeRequested = TRUE, !.unstakeRequestTime = now]

\* the times of the pending request and of the pending request it replaced
Superseding(requestTimes) ==
    IF requestTimes = <<>> THEN <<now>>
    ELSE IF requestTimes[Len(requestTimes)] = now THEN requestTimes
    ELSE <<requestTimes[Len(requestTimes)], now>>

requestUnstake(caller, amount) ==
    /\ IF requestUnstakeResult(caller, amount) = "ok"
       THEN /\ stakingPositions' = [stakingPositions EXCEPT
                   ![caller] = RequestedPosition(@)]
            /\ rewardLog' = [rewardLog EXCEPT
                   ![caller].settlements =
                       (IF rewardLog[caller].steady THEN @ + 1 ELSE @),
                   ![caller].requestTimes = Superseding(@)]
       ELSE UNCHANGED <<stakingPositions, rewardLog>>
    /\ UNCHANGED <<now, ctlVars, extVars, cmVars, supportedStakingTokens,
                   totalStakedPerToken, liquidStakingBalances, baseAnnualRewardRate,
                   protocolFeeRate, totalProtocolRewards>>
    /\ UNCHANGED <<bcVars, variantVars, callVars>>

LiquidBalance(user, token) ==
    IF token \in Tokens THEN liquidStakingBalances[user][token] ELSE 0

\* mutant: the cooldown is checked before the request flag
executeUnstakeResult_DelayFirst(caller, amount) ==
    LET position == stakingPositions[caller]
        rewards == updateRewards(position).accumulatedRewards
    IN
    IF now < position.unstakeRequestTime + UNSTAKE_DELAY THEN "UnstakeDelayNotMet"
    ELSE IF ~position.unstakeRequested THEN "UnstakeNotRequested"
    ELSE IF position.stakedAmount < amount THEN "InsufficientStake"
    ELSE IF LiquidBalance(caller, position.stakingToken) < amount THEN "Panic"
    ELSE IF totalStakedPerToken[position.stakingToken] < amount THEN "Panic"
    ELSE IF balanceOf[position.stakingToken][SP] < amount + rewards
    THEN "ERC20InsufficientBalance"
    ELSE "ok"

\* the checks of executeUnstake in the code's order; the checked subtractions
\* on the liquid balance and the token total revert with Panic(0x11), and the
\* transfers of the principal, the user's rewards and the protocol fee revert
\* when the proxy holds less than principal plus rewards
executeUnstakeResult(caller, amount) ==
    LET position == stakingPositions[caller]
        rewards == updateRewards(position).accumulatedRewards
    IN
    IF ~position.unstakeRequested THEN "UnstakeNotRequested"
    ELSE IF now < position.unstakeRequestTime + UNSTAKE_DELAY THEN "UnstakeDelayNotMet"
    ELSE IF position.stakedAmount < amount THEN "InsufficientStake"
    ELSE IF LiquidBalance(caller, position.stakingToken) < amount THEN "Panic"
    ELSE IF totalStakedPerToken[position.stakingToken] < amount THEN "Panic"
    ELSE IF balanceOf[position.stakingToken][SP] < amount + rewards
    THEN "ERC20InsufficientBalance"
    ELSE "ok"

\* mutant: the protocol fee is rounded up
ProtocolFee_RoundUp(rewards) ==
    (rewards * protocolFeeRate + BASIS_POINTS - 1) \div BASIS_POINTS

\* (rewards * protocolFeeRate) / BASIS_POINTS
ProtocolFee(rewards) == (rewards * protocolFeeRate) \div BASIS_POINTS

executeUnstake(caller, amount) ==
    LET position == updateRewards(stakingPositions[caller])
        token == position.stakingToken
        rewards == position.accumulatedRewards
        protocolFee == ProtocolFee(rewards)
        userRewards == rewards - protocolFee
    IN
    /\ IF executeUnstakeResult(caller, amount) = "ok"
       THEN /\ stakingPositions' = [stakingPositions EXCEPT
                   ![caller] = [position EXCEPT
                       !.stakedAmount = @ - amount,
                       !.accumulatedRewards = 0,
                       !.unstakeRequested = FALSE,
                       !.isActive = (position.stakedAmount - amount # 0)]]
            /\ liquidStakingBalances' =
                   [liquidStakingBalances EXCEPT ![caller][token] = @ - amount]
            /\ totalStakedPerToken' = [totalStakedPerToken EXCEPT ![token] = @ - amount]
            /\ balanceOf' = Transfer(Transfer(balanceOf, token, SP, caller,
                                              amount + userRewards),
                                     token, SP, Treasury, protocolFee)
            /\ totalProtocolRewards' = totalProtocolRewards + protocolFee
            /\ rewardLog' = [rewardLog EXCEPT ![caller].steady = FALSE,
                                              ![caller].requestTimes = <<>>]
       ELSE UNCHANGED <<stakingPositions, liquidStakingBalances, totalStakedPerToken,
                        balanceOf, totalProtocolRewards, rewardLog>>
    /\ UNCHANGED <<now, ctlVars, pythPrices, cmVars, supportedStakingTokens,
                   baseAnnualRewardRate, protocolFeeRate>>
    /\ leaveGuard(SP)
    /\ UNCHANGED <<bcVars, variantVars>>

\* getStakingInfo: pendingRewards
pendingRewards(user) ==
    LET position == stakingPositions[user] IN
    IF position.isActive
    THEN position.accumulatedRewards
             + AccruedRewards(position.stakedAmount, position.rewardRate,
                              now - position.lastRewardUpdate)
    ELSE 0

\* getStakingInfo: isHealthy
isHealthy(user) ==
    canStake(user, calculateStakeValueUSD(stakingPositions[user].stakingToken,
                                          stakingPositions[user].stakedAmount))

\* getStakingInfo: canUnstake
canUnstake(user) ==
    /\ stakingPositions[user].unstakeRequested
    /\ now >= stakingPositions[user].unstakeRequestTime + UNSTAKE_DELAY

\* a client reads getStakingInfo(user) and keeps pendingRewards and the time
getStakingInfo(user) ==
    /\ rewardLog' = [rewardLog EXCEPT
           ![user] = [time |-> now, pendingRewards |-> pendingRewards(user),
                      settlements |-> 0, steady |-> stakingPositions[user].isActive,
                      requestTimes |-> rewardLog[user].requestTimes]]
    /\ UNCHANGED <<now, ctlVars, extVars, cmVars, stakingPositions,
                   supportedStakingTokens, totalStakedPerToken, liquidStakingBalances,
                   baseAnnualRewardRate, protocolFeeRate, totalProtocolRewards>>
    /\ UNCHANGED <<bcVars, variantVars, callVars>>

setSupportedStakingToken(caller, token, supported) ==
    /\ supportedStakingTokens' =
           (IF onlyOwner(caller) # "ok" THEN supportedStakingTokens
            ELSE IF supported THEN supportedStakingTokens \cup {token}
            ELSE supportedStakingTokens \ {token})
    /\ UNCHANGED <<now, ctlVars, extVars, cmVars, stakingPositions,
                   totalStakedPerToken, liquidStakingBalances, baseAnnualRewardRate,
                   protocolFeeRate, totalProtocolRewards, rewardLog>>
    /\ UNCHANGED <<bcVars, variantVars, callVars>>

updateBaseRewardRateResult(caller, newRate) ==
    IF onlyOwner(caller) # "ok" THEN onlyOwner(caller)
    ELSE IF newRate = 0 \/ newRate > 2000 THEN "InvalidRewardRate"
    ELSE "ok"

updateBaseRewardRate(caller, newRate) ==
    /\ baseAnnualRewardRate' =
           (IF updateBaseRewardRateResult(caller, newRate) = "ok"
            THEN newRate ELSE baseAnnualRewardRate)
    /\ UNCHANGED <<now, ctlVars, extVars, cmVars, stakingPositions,
                   supportedStakingTokens, totalStakedPerToken, liquidStakingBalances,
                   protocolFeeRate, totalProtocolRewards, rewardLog>>
    /\ UNCHANGED <<bcVars, variantVars, callVars>>

updateProtocolFeeRateResult(caller, newRate) ==
    IF onlyOwner(caller) # "ok" THEN onlyOwner(caller)
    ELSE IF ~(newRate <= 1000) THEN "Fee rate too high"
    ELSE "ok"

updateProtocolFeeRate(caller, newRate) ==
    /\ protocolFeeRate' =
           (IF updateProtocolFeeRateResult(caller, newRate) = "ok"
            THEN newRate ELSE protocolFeeRate)
    /\ UNCHANGED <<now, ctlVars, extVars, cmVars, stakingPositions,
                   supportedStakingTokens, totalStakedPerToken, liquidStakingBalances,
                   baseAnnualRewardRate, totalProtocolRewards, rewardLog>>
    /\ UNCHANGED <<bcVars, variantVars, callVars>>

\* an ERC20 transfer between two holders, such as funding the proxy's rewards
transfer(token, from, to, amount) ==
    /\ balanceOf' = (IF balanceOf[token][from] < amount THEN balanceOf
                     ELSE Transfer(balanceOf, token, from, to, amount))
    /\ UNCHANGED <<now, ctlVars, pythPrices, cmVars, spVars>>
    /\ UNCHANGED <<bcVars, variantVars, callVars>>

\* MockERC20.mint(to, amount): callable by anyone
mint(token, to, amount) ==
    /\ balanceOf' = [balanceOf EXCEPT ![token][to] = @ + amount]
    /\ UNCHANGED <<now, ctlVars, pythPrices, cmVars, spVars>>
    /\ UNCHANGED <<bcVars, variantVars, callVars>>

SpInit ==
    /\ stakingPositions = [u \in Users |-> ZeroStake]
    /\ supportedStakingTokens = {}
    /\ totalStakedPerToken = [t \in Tokens |-> 0]
    /\ liquidStakingBalances = [u \in Users |-> [t \in Tokens |-> 0]]
    /\ baseAnnualRewardRate = 500
    /\ protocolFeeRate = 100
    /\ totalProtocolRewards = 0
    /\ rewardLog = [u \in Users |->
                       [time |-> 0, pendingRewards |-> 0, settlements |-> 0,
                        steady |-> FALSE, requestTimes |-> <<>>]]

(***************************************************************************)
(* Calls in progress.  depositPYUSD, depositCollateral, withdrawCollateral, *)
(* stakeWithCollateral and executeUnstake call a token's transferFrom or    *)
(* transfer after their checks; the other guarded functions of the          *)
(* StakingProxy make no call that hands control to foreign code (canStake   *)
(* is a static call, requestUnstake calls nothing).                         *)
(***************************************************************************)
CollateralOps == {"depositPYUSD", "depositCollateral", "withdrawCollateral"}
StakingOps == {"stakeWithCollateral", "executeStakeAfterBridge", "aiControlledStake",
               "requestUnstake", "executeUnstake"}
TransferOps == CollateralOps \cup {"stakeWithCollateral", "executeUnstake"}
ContractOf(op) == IF op \in CollateralOps THEN CM ELSE SP

\* the checks of the function's body
bodyResult(op, caller, user, token, amount) ==
    CASE op = "depositPYUSD" -> depositPYUSDResult(caller, amount, FALSE, 0)
      [] op = "depositCollateral" -> depositCollateralResult(caller, token, amount, FALSE, 0)
      [] op = "withdrawCollateral" -> withdrawCollateralResult(caller, token, amount, FALSE, 0)
      [] op = "stakeWithCollateral" -> stakeWithCollateralResult(caller, token, amount)
      [] op = "executeStakeAfterBridge" -> executeStakeAfterBridgeResult(user, token, amount)
      [] op = "aiControlledStake" -> aiControlledStakeResult(caller, user, token, amount)
      [] op = "requestUnstake" -> requestUnstakeResult(caller, amount)
      [] op = "executeUnstake" -> executeUnstakeResult(caller, amount)

\* the modifiers in the order they are written, then the body's checks
callResult(op, caller, user, token, amount) ==
    IF op = "aiControlledStake" /\ caller # AIController THEN "OnlyAIController"
    ELSE IF nonReentrant(ContractOf(op)) # "ok" THEN nonReentrant(ContractOf(op))
    ELSE bodyResult(op, caller, user, token, amount)

\* the function's body
callBody(op, caller, user, token, amount) ==
    CASE op = "depositPYUSD" -> depositPYUSD(caller, amount, FALSE, 0)
      [] op = "depositCollateral" -> depositCollateral(caller, token, amount, FALSE, 0)
      [] op = "withdrawCollateral" -> withdrawCollateral(caller, token, amount, FALSE, 0)
      [] op = "stakeWithCollateral" -> stakeWithCollateral(caller, token, amount)
      [] op = "executeStakeAfterBridge" -> executeStakeAfterBridge(user, token, amount)
      [] op = "aiControlledStake" -> aiControlledStake(caller, user, token, amount, <<>>)
      [] op = "requestUnstake" -> requestUnstake(caller, amount)
      [] op = "executeUnstake" -> executeUnstake(caller, amount)

\* a call enters its guard, passes its checks and reaches its token transfer
suspendCall(op, caller, token, amount) ==
    /\ inFlight = NoCall
    /\ callResult(op, caller, caller, token, amount) = "ok"
    /\ guardStatus' = [guardStatus EXCEPT ![ContractOf(op)] = ENTERED]
    /\ inFlight' = [contract |-> ContractOf(op), op |-> op, caller |-> caller,
                    token |-> token, amount |-> amount]
    /\ UNCHANGED <<now, ctlVars, extVars, cmVars, spVars, bcVars, variantVars,
                   selfCalls>>

\* the code that holds control calls a guarded function; a call that reverts
\* changes nothing and the suspended call goes on
nestedCall(op, caller, user, token, amount) ==
    /\ inFlight # NoCall
    /\ IF callResult(op, caller, user, token, amount) = "ok"
       THEN callBody(op, caller, user, token, amount)
       ELSE UNCHANGED vars

\* the transfer returns and the suspended call runs to its end
returnCall ==
    /\ inFlight # NoCall
    /\ bodyResult(inFlight.op, inFlight.caller, inFlight.caller, inFlight.token,
                  inFlight.amount) = "ok"
    /\ callBody(inFlight.op, inFlight.caller, inFlight.caller, inFlight.token,
                inFlight.amount)

CallInit ==
    /\ guardStatus = [c \in Contracts |-> NOT_ENTERED]
    /\ inFlight = NoCall
    /\ selfCalls = <<>>

BcInit ==
    /\ bridgeOperations = <<>>
    /\ processedNexusTxs = {}
    /\ lastBridgeTime = <<>>
    /\ bridgeEvents = {}

(***************************************************************************)
(* BridgeCoordinator.  Bridge amounts are counted in units of 0.001 ether,  *)
(* the smallest minBridgeAmount.                                            *)
(***************************************************************************)
MIN_BRIDGE_INTERVAL == 300
SEPOLIA == 11155111
AMOY == 80002
MAINNET == 1

\* _initializeChainConfigs: Sepolia 0.001 to 100 ether, Amoy 1 to 10000 ether
\* (Arbitrum Sepolia and Base Sepolia are configured like Sepolia)
chainConfigs(chainId) ==
    CASE chainId = SEPOLIA ->
             [isSupported |-> TRUE, minBridgeAmount |-> 1, maxBridgeAmount |-> 100000]
      [] chainId = AMOY ->
             [isSupported |-> TRUE, minBridgeAmount |-> 1000, maxBridgeAmount |-> 10000000]
      [] OTHER ->
             [isSupported |-> FALSE, minBridgeAmount |-> 0, maxBridgeAmount |-> 0]

ZeroOperation ==
    [user |-> ZERO, amount |-> 0, sourceChainId |-> 0, targetChainId |-> 0,
     timestamp |-> 0, completed |-> FALSE, cancelled |-> FALSE, nexusTxHash |-> ""]

Op(id) == IF id \in DOMAIN bridgeOperations THEN bridgeOperations[id] ELSE ZeroOperation

LastBridgeTime(caller) ==
    IF caller \in DOMAIN lastBridgeTime THEN lastBridgeTime[caller] ELSE 0

\* operationId = keccak256(user, sourceToken, targetToken, amount, chains,
\* block.timestamp, agentRequestId): equal arguments at one time give one id
OperationId(user, amount, sourceChainId, targetChainId) ==
    <<user, amount, sourceChainId, targetChainId, now>>

\* modifiers rateLimited validChain(source) validChain(target), then the body
createBridgeOperationResult(caller, amount, sourceChainId, targetChainId) ==
    IF now < LastBridgeTime(caller) + MIN_BRIDGE_INTERVAL THEN "BridgeRateLimit"
    ELSE IF ~chainConfigs(sourceChainId).isSupported THEN "ChainNotSupported"
    ELSE IF ~chainConfigs(targetChainId).isSupported THEN "ChainNotSupported"
    ELSE IF amount < chainConfigs(sourceChainId).minBridgeAmount
            \/ amount > chainConfigs(sourceChainId).maxBridgeAmount
    THEN "InvalidAmount"
    ELSE "ok"

createBridgeOperation(caller, user, amount, sourceChainId, targetChainId) ==
    /\ IF createBridgeOperationResult(caller, amount, sourceChainId, targetChainId) = "ok"
       THEN /\ bridgeOperations' =
                   (OperationId(user, amount, sourceChainId, targetChainId) :>
                       [user |-> user, amount |-> amount,
                        sourceChainId |-> sourceChainId,
                        targetChainId |-> targetChainId, timestamp |-> now,
                        completed |-> FALSE, cancelled |-> FALSE, nexusTxHash |-> ""])
                   @@ bridgeOperations
            /\ lastBridgeTime' = (caller :> now) @@ lastBridgeTime
       ELSE UNCHANGED <<bridgeOperations, lastBridgeTime>>
    /\ UNCHANGED <<now, ctlVars, extVars, cmVars, spVars, processedNexusTxs,
                   bridgeEvents, variantVars, callVars>>

\* any caller may confirm
confirmBridgeAndStakeResult(operationId, user, nexusTxHash) ==
    IF nonReentrant(BC) # "ok" THEN nonReentrant(BC)
    ELSE IF nexusTxHash \in processedNexusTxs THEN "NexusTxAlreadyProcessed"
    ELSE IF Op(operationId).user # user THEN "OperationNotFound"
    ELSE IF Op(operationId).completed \/ Op(operationId).cancelled THEN "AlreadyCompleted"
    ELSE "ok"

\* The operation is marked before the stake is tried; a stake that reverts is
\* caught and only reported in the events.  The amount staked is the call's
\* argument, not the operation's amount.
confirmBridgeAndStake(operationId, user, token, amount, nexusTxHash) ==
    LET success == executeStakeAfterBridgeResult(user, token, amount) = "ok" IN
    /\ IF confirmBridgeAndStakeResult(operationId, user, nexusTxHash) = "ok"
       THEN /\ bridgeOperations' =
                   [bridgeOperations EXCEPT ![operationId].completed = TRUE,
                                            ![operationId].nexusTxHash = nexusTxHash]
            /\ processedNexusTxs' = processedNexusTxs \cup {nexusTxHash}
            /\ bridgeEvents' = bridgeEvents \cup {<<operationId, success>>}
            /\ IF success
               THEN CreditStake(user, token, amount,
                                updateStakingPosition(stakingPositions[user], token,
                                                      amount))
               ELSE UNCHANGED <<stakingPositions, liquidStakingBalances,
                                totalStakedPerToken, rewardLog>>
       ELSE UNCHANGED <<bridgeOperations, processedNexusTxs, bridgeEvents,
                        stakingPositions, liquidStakingBalances, totalStakedPerToken,
                        rewardLog>>
    /\ UNCHANGED <<now, ctlVars, extVars, cmVars, supportedStakingTokens,
                   baseAnnualRewardRate, protocolFeeRate, totalProtocolRewards,
                   lastBridgeTime, variantVars, callVars>>

cancelBridgeOperationResult(caller, operationId) ==
    IF Op(operationId).user # caller THEN "Unauthorized"
    ELSE IF Op(operationId).completed \/ Op(operationId).cancelled THEN "AlreadyCompleted"
    ELSE "ok"

cancelBridgeOperation(caller, operationId) ==
    /\ IF cancelBridgeOperationResult(caller, operationId) = "ok"
       THEN bridgeOperations' = [bridgeOperations EXCEPT ![operationId].cancelled = TRUE]
       ELSE UNCHANGED bridgeOperations
    /\ UNCHANGED <<now, ctlVars, extVars, cmVars, spVars, processedNexusTxs,
                   lastBridgeTime, bridgeEvents, variantVars, callVars>>

\* onlyOwner, then only the completed flag is looked at: neither cancelled
\* nor processedNexusTxs is read or written.  An id that was never created
\* reads as the zero operation and is marked completed as well.
emergencyCompleteOperationResult(caller, operationId) ==
    IF onlyOwner(caller) # "ok" THEN onlyOwner(caller)
    ELSE IF Op(operationId).completed THEN "AlreadyCompleted"
    ELSE "ok"

emergencyCompleteOperation(caller, operationId, nexusTxHash) ==
    /\ IF emergencyCompleteOperationResult(caller, operationId) = "ok"
       THEN /\ bridgeOperations' =
                   (operationId :> [Op(operationId) EXCEPT !.completed = TRUE,
                                                           !.nexusTxHash = nexusTxHash])
                   @@ bridgeOperations
            /\ bridgeEvents' = bridgeEvents \cup {<<operationId, TRUE>>}
       ELSE UNCHANGED <<bridgeOperations, bridgeEvents>>
    /\ UNCHANGED <<now, ctlVars, extVars, cmVars, spVars, processedNexusTxs,
                   lastBridgeTime, variantVars, callVars>>

(***************************************************************************)
(* StakingProxy as it was before the per-token ledgers: one position per   *)
(* user, stakes valued at a fixed 2500 per token, and the bridge id of     *)
(* every cross-chain stake recorded.  Its supportedStakingTokens and       *)
(* baseAnnualRewardRate are set by the same owner functions.               *)
(***************************************************************************)
BridgeIds == {"bridge_1", "bridge_2", "bridge_3"}

ZeroVariantPosition ==
    [token |-> ZERO, stakedAmount |-> 0, liquidTokenBalance |-> 0,
     lastRewardTime |-> 0, accumulatedRewards |-> 0, unstakeRequestTime |-> 0,
     unstakeAmount |-> 0]

VariantInit ==
    /\ processedBridgeIds = {}
    /\ variantPositions = [u \in Users |-> ZeroVariantPosition]
    /\ totalStaked = 0
    /\ crossChainStakes = [id \in BridgeIds |-> <<>>]

variantPendingRewards(position) ==
    IF position.stakedAmount = 0 THEN 0
    ELSE (((position.stakedAmount * baseAnnualRewardRate) \div BASIS_POINTS)
             * (now - position.lastRewardTime)) \div SECONDS_PER_YEAR

\* _executeStake
variantExecuteStake(position, token, amount) ==
    [position EXCEPT
        !.accumulatedRewards = @ + variantPendingRewards(position),
        !.stakedAmount = @ + amount,
        !.liquidTokenBalance = @ + amount,
        !.lastRewardTime = now,
        !.token = token]

\* the same checks without the one on processedBridgeIds
variantStakeAfterBridgeResult_IdNotChecked(user, token, amount, bridgeId) ==
    IF nonReentrant(SP) # "ok" THEN nonReentrant(SP)
    ELSE IF token \notin supportedStakingTokens THEN "TokenNotSupported"
    ELSE IF amount = 0 THEN "InvalidAmount"
    ELSE IF ~canStake(user, amount * 2500) THEN "InsufficientCollateral"
    ELSE "ok"

\* any caller; the checks in the order of the code
variantStakeAfterBridgeResult(user, token, amount, bridgeId) ==
    IF nonReentrant(SP) # "ok" THEN nonReentrant(SP)
    ELSE IF token \notin supportedStakingTokens THEN "TokenNotSupported"
    ELSE IF amount = 0 THEN "InvalidAmount"
    ELSE IF bridgeId \in processedBridgeIds THEN "BridgeIdAlreadyProcessed"
    ELSE IF ~canStake(user, amount * 2500) THEN "InsufficientCollateral"
    ELSE "ok"

variantStakeAfterBridge(user, token, amount, bridgeId) ==
    /\ IF variantStakeAfterBridgeResult(user, token, amount, bridgeId) = "ok"
       THEN /\ processedBridgeIds' = processedBridgeIds \cup {bridgeId}
            /\ variantPositions' =
                   [variantPositions EXCEPT
                       ![user] = variantExecuteStake(@, token, amount)]
            /\ totalStaked' = totalStaked + amount
            /\ crossChainStakes' =
                   [crossChainStakes EXCEPT
                       ![bridgeId] = Append(@, <<user, token, amount>>)]
       ELSE UNCHANGED variantVars
    /\ UNCHANGED <<now, ctlVars, extVars, cmVars, spVars, bcVars, callVars>>

(***************************************************************************)
(* cancelRequest for a user that is a contract: the refund transfer hands  *)
(* control to the user's receive hook after the request was marked         *)
(* executed and the value has left the controller, and cancelRequest has   *)
(* no re-entrancy guard.  A hook that reverts undoes the whole call, which *)
(* is then a step that changes nothing.                                    *)
(***************************************************************************)
\* the checks pass, the flag is set and the transfer reaches the hook
cancelRequestSuspend(caller, id) ==
    /\ inFlight = NoCall
    /\ cancelRequestResult(caller, id) = "ok"
    /\ Req(id).value > 0
    /\ agentRequests' = [agentRequests EXCEPT ![id].executed = TRUE]
    /\ controllerEth' = controllerEth - Req(id).value
    /\ inFlight' = [contract |-> Controller, op |-> "cancelRequest", caller |-> caller,
                    token |-> id, amount |-> Req(id).value]
    /\ UNCHANGED <<now, paused, agentRole, authorizedAgents, agentTypes,
                   agentRequestCounts, userRequestsPerHour, requestEvents>>
    /\ UNCHANGED <<extVars, cmVars, spVars, bcVars, variantVars, guardStatus, selfCalls>>

\* the hook returns and cancelRequest emits its event
cancelRequestResume ==
    /\ inFlight.op = "cancelRequest"
    /\ requestEvents' = requestEvents \cup {<<"RequestCancelled", inFlight.token>>}
    /\ inFlight' = NoCall
    /\ UNCHANGED <<now, paused, agentRole, authorizedAgents, agentTypes, agentRequests,
                   agentRequestCounts, userRequestsPerHour, controllerEth>>
    /\ UNCHANGED <<extVars, cmVars, spVars, bcVars, variantVars, guardStatus, selfCalls>>

(***************************************************************************)
(* The passage of time between transactions                                *)
(***************************************************************************)
AdvanceTime(d) ==
    /\ now' = now + d
    /\ UNCHANGED <<ctlVars, extVars, cmVars, spVars>>
    /\ UNCHANGED <<bcVars, variantVars, callVars>>

CtlInit ==
    /\ paused = FALSE
    /\ agentRole = {}
    /\ authorizedAgents = {}
    /\ agentTypes = [a \in {A1, A2} |-> ""]
    /\ agentRequests = <<>>
    /\ agentRequestCounts = [a \in {A1, A2} |-> 0]
    /\ userRequestsPerHour = <<>>
    /\ controllerEth = 0
    /\ requestEvents = {}

Init ==
    /\ now = StartTime
    /\ CtlInit
    /\ ExtInit
    /\ CmInit
    /\ SpInit
    /\ BcInit
    /\ VariantInit
    /\ CallInit

(***************************************************************************)
(* Request lifecycle: every controller operation, a few requests           *)
(***************************************************************************)
MaxRequests == 2
Callers == {Owner, U1, U2}
ExpiryOffsets == {0, 1, ONE_DAY, ONE_DAY + 1}
NumRequests == Cardinality(DOMAIN agentRequests)
\* the ids that exist, and one that was never created
SomeIds == DOMAIN agentRequests \cup {<<A1, MaxRequests + 1>>}

Next ==
    \/ \E c \in {Owner, U1}, a \in {A1, ZERO} : authorizeAgent(c, a, "StrategyOptimizer")
    \/ \E c \in {Owner, U1} : revokeAgent(c, A1)
    \/ \E c \in {A1, U1}, u \in {U1, ZERO}, off \in ExpiryOffsets, v \in {0, 1} :
          /\ NumRequests < MaxRequests
          /\ createAgentRequest(c, u, "0x", now + off, v)
    \/ \E c \in Callers, id \in SomeIds : executeAgentRequest(c, id)
    \/ \E c \in Callers, id \in SomeIds : cancelRequest(c, id)
    \/ \E c \in {Owner, U1} : emergencyPause(c)
    \/ \E c \in {Owner, U1} : unpause(c)
    \/ (now < StartTime + MaxTicks /\ AdvanceTime(1))

Spec == Init /\ [][Next]_vars

(***************************************************************************)
(* Rate limiting: enough requests to fill an hour bucket                   *)
(***************************************************************************)
MaxRateRequests == 11
\* requests other than those agent A1 makes for user U1
MaxOther == 1
\* the stored requests made for `user` in hour bucket `hour`
StoredFor(user, hour) ==
    {id \in DOMAIN agentRequests :
        agentRequests[id].user = user /\ agentRequests[id].timestamp \div HOUR = hour}
\* the stored requests made by `agent` in hour bucket `hour`
StoredBy(agent, hour) ==
    {id \in DOMAIN agentRequests :
        agentRequests[id].agent = agent /\ agentRequests[id].timestamp \div HOUR = hour}

NextRate ==
    \/ \E a \in {A1, A2} : authorizeAgent(Owner, a, "StrategyOptimizer")
    \/ \E a \in {A1, A2}, u \in {U1, U2} :
          /\ NumRequests < MaxRateRequests
          /\ (a # A1 \/ u # U1) =>
                Cardinality({id \in DOMAIN agentRequests :
                                agentRequests[id].agent # A1
                                \/ agentRequests[id].user # U1}) < MaxOther
          /\ createAgentRequest(a, u, "0x", now + ONE_DAY, 0)
    \/ (now < StartTime + MaxTicks /\ AdvanceTime(1))

SpecRate == Init /\ [][NextRate]_vars

(***************************************************************************)
(* Collateral ledger: deposits and withdrawals under changing fees         *)
(***************************************************************************)
MaxDeposits == 2
NumDeposits == positions[U1].depositCount + positions[U2].depositCount
\* update data and msg.value of a payable call
CallValues == {<<FALSE, 0>>, <<TRUE, 0>>, <<TRUE, 1>>}

NextCollateral ==
    \/ \E u \in Users, t \in {PYUSD_MAINNET, STK}, a \in {0, 1000} :
          /\ NumDeposits < MaxDeposits
          /\ depositCollateral(u, t, a, FALSE, 0)
    \/ \E u \in Users, a \in {0, 1000}, cv \in CallValues :
          /\ NumDeposits < MaxDeposits
          /\ depositPYUSD(u, a, cv[1], cv[2])
    \/ \E u \in Users, t \in {PYUSD_MAINNET, PYUSD_SEPOLIA}, a \in {0, 499, 500} :
          withdrawCollateral(u, t, a, FALSE, 0)
    \/ \E c \in {Owner, U1}, f \in {<<500, 500>>, <<500, 501>>} :
          updateFees(c, f[1], f[2])

SpecCollateral == Init /\ [][NextCollateral]_vars

(***************************************************************************)
(* Token list: adding and removing collateral tokens, oracle quotes        *)
(***************************************************************************)
MaxTokenDeposits == 2
MaxStaleSteps == 1
StkMaxDeposit == <<1500, 0>>
TokenDeposits == {<<PYUSD_SEPOLIA, 1000>>, <<STK, 1000>>, <<STK, 1501>>}

NextTokens ==
    \/ \E d \in TokenDeposits, cv \in {<<FALSE, 0>>, <<TRUE, 1>>} :
          /\ positions[U1].depositCount < MaxTokenDeposits
          /\ depositCollateral(U1, d[1], d[2], cv[1], cv[2])
    \/ \E t \in {PYUSD_SEPOLIA, STK} : withdrawCollateral(U1, t, 500, FALSE, 0)
    \/ \E c \in {Owner, U1} :
          addSupportedToken(c, STK, ETH_USD, 0, 8000, StkMaxDeposit, FALSE)
    \/ \E c \in {Owner, U1}, t \in {PYUSD_SEPOLIA, STK} : removeSupportedToken(c, t)
    \/ \E p \in {0, 3} : setPrice(ETH_USD, p, 0)
    \/ (now < StartTime + MaxStaleSteps * (STALE_PRICE_THRESHOLD + 1)
          /\ AdvanceTime(STALE_PRICE_THRESHOLD + 1))

SpecTokens == Init /\ [][NextTokens]_vars

(***************************************************************************)
(* Staking: admission, unstake cooldown                                    *)
(***************************************************************************)
MaxCooldowns == 1
MaxSeconds == 1
MaxStakedUSD == 80000
RewardFunding == 100
\* time passes in single seconds and in steps of one second less than the
\* cooldown, so that both sides of the cooldown's end are visited
LongStep == UNSTAKE_DELAY - 1
LongSteps == (now - StartTime) \div LongStep
Seconds == (now - StartTime) % LongStep
StakeInputs ==
    {<<PYUSD_MAINNET, 1000>>, <<PYUSD_SEPOLIA, 0>>, <<PYUSD_SEPOLIA, 40000>>,
     <<PYUSD_SEPOLIA, 65935>>, <<STK, 32>>, <<STK, 33>>}
\* keeps the number of successive stakes of one token small
WithinStakeBound(user, token, amount) ==
    calculateStakeValueUSD(token, liquidStakingBalances[user][token] + amount)
        <= MaxStakedUSD
UnstakeAmounts(user) == {0, stakingPositions[user].stakedAmount}
Setup ==
    \/ \E c \in {Owner, U1}, t \in {PYUSD_SEPOLIA, STK} :
          setSupportedStakingToken(c, t, TRUE)
    \/ (positions[U1].depositCount < 1
          /\ depositCollateral(U1, PYUSD_SEPOLIA, 1000, FALSE, 0))
    \/ (balanceOf[PYUSD_SEPOLIA][U2] = InitialWallet
          /\ transfer(PYUSD_SEPOLIA, U2, SP, RewardFunding))

NextStake ==
    \/ Setup
    \/ \E s \in StakeInputs :
          /\ WithinStakeBound(U1, s[1], s[2])
          /\ stakeWithCollateral(U1, s[1], s[2])
    \/ \E s \in StakeInputs :
          /\ WithinStakeBound(U1, s[1], s[2])
          /\ executeStakeAfterBridge(U1, s[1], s[2])
    \/ \E c \in {AIController, U1}, s \in StakeInputs, d \in {<<>>, <<3000>>} :
          /\ WithinStakeBound(U1, s[1], s[2])
          /\ aiControlledStake(c, U1, s[1], s[2], d)
    \/ \E a \in UnstakeAmounts(U1) : requestUnstake(U1, a)
    \/ \E a \in UnstakeAmounts(U1) : executeUnstake(U1, a)
    \/ (Seconds < MaxSeconds /\ AdvanceTime(1))
    \/ (LongSteps < MaxCooldowns /\ AdvanceTime(LongStep))

SpecStake == Init /\ [][NextStake]_vars

(***************************************************************************)
(* Rewards: accrual and settlement over several weeks                      *)
(***************************************************************************)
MaxWeeks == 3
MaxRewardStake == 1200
MaxSettlements == 3
RewardRates == {0, 400}

NextRewards ==
    \/ (now = StartTime /\ Setup)
    \/ \E a \in {1000, 1200} :
          /\ stakingPositions[U1].stakedAmount + a <= MaxRewardStake
          /\ stakeWithCollateral(U1, PYUSD_SEPOLIA, a)
    \/ \E c \in {Owner, U1}, r \in RewardRates : updateBaseRewardRate(c, r)
    \/ \E a \in {0, stakingPositions[U1].stakedAmount + 1} :
          /\ rewardLog[U1].settlements < MaxSettlements
          /\ requestUnstake(U1, a)
    \/ \E a \in UnstakeAmounts(U1) : executeUnstake(U1, a)
    \/ (~rewardLog[U1].steady /\ getStakingInfo(U1))
    \/ (LongSteps < MaxWeeks /\ AdvanceTime(LongStep))

SpecRewards == Init /\ [][NextRewards]_vars

(***************************************************************************)
(* Re-entrancy: calls suspended at a token transfer, and what the code that *)
(* holds control can do meanwhile                                           *)
(***************************************************************************)
MaxReentrantStake == 200
MaxReentrantDeposits == 2
\* the calls that get suspended: <<function, token, amount>>
SuspendedCalls == {<<"depositPYUSD", PYUSD_SEPOLIA, 1000>>,
                   <<"depositCollateral", PYUSD_SEPOLIA, 1000>>,
                   <<"withdrawCollateral", PYUSD_SEPOLIA, 500>>,
                   <<"stakeWithCollateral", PYUSD_SEPOLIA, 100>>,
                   <<"executeUnstake", PYUSD_SEPOLIA, 100>>}
\* the calls attempted while a call is suspended
NestedCalls == {<<"depositPYUSD", PYUSD_SEPOLIA, 1000>>,
                <<"depositCollateral", PYUSD_SEPOLIA, 1000>>,
                <<"withdrawCollateral", PYUSD_SEPOLIA, 500>>,
                <<"stakeWithCollateral", PYUSD_SEPOLIA, 100>>,
                <<"executeStakeAfterBridge", PYUSD_SEPOLIA, 100>>,
                <<"aiControlledStake", PYUSD_SEPOLIA, 100>>,
                <<"requestUnstake", PYUSD_SEPOLIA, 100>>,
                <<"executeUnstake", PYUSD_SEPOLIA, 100>>}
\* who makes them: the user, and the AI controller for its own function
NestedCallers(op) == IF op = "aiControlledStake" THEN {U1, AIController} ELSE {U1}
\* the ledgers stay small: few deposits, one withdrawal, a small stake
WithinReentrantBound(op) ==
    /\ op \in {"depositPYUSD", "depositCollateral"} =>
           positions[U1].depositCount < MaxReentrantDeposits
    /\ op = "withdrawCollateral" =>
           collateralLedger[U1][PYUSD_SEPOLIA].withdrawn = 0
    /\ op \in {"stakeWithCollateral", "executeStakeAfterBridge", "aiControlledStake"} =>
           stakingPositions[U1].stakedAmount < MaxReentrantStake

NextReentrancy ==
    \/ (inFlight = NoCall /\ setSupportedStakingToken(Owner, PYUSD_SEPOLIA, TRUE))
    \/ (inFlight = NoCall /\ ~stakingPositions[U1].unstakeRequested /\ requestUnstake(U1, 100))
    \/ (inFlight = NoCall /\ now = StartTime /\ AdvanceTime(UNSTAKE_DELAY))
    \/ \E c \in SuspendedCalls :
          WithinReentrantBound(c[1]) /\ suspendCall(c[1], U1, c[2], c[3])
    \/ \E c \in NestedCalls : \E caller \in NestedCallers(c[1]) :
          /\ WithinReentrantBound(c[1])
          /\ nestedCall(c[1], caller, U1, c[2], c[3])
    \/ \E c \in {Owner, U1} : inFlight.contract = CM /\ updateFeeRecipient(c, Treasury)
    \/ \E c \in {Owner, U1} : inFlight.contract = SP /\ updateBaseRewardRate(c, 400)
    \/ returnCall

SpecReentrancy == Init /\ [][NextReentrancy]_vars

(***************************************************************************)
(* Calls that invoke another call: executeAgentRequest and                  *)
(* confirmBridgeAndStake                                                    *)
(***************************************************************************)
MaxInnerRequests == 1
MaxOperations == 1
MaxBridgeSteps == 1
MaxBridgedStake == 100
ActionData == {"0x", "emergencyPause()", "executeAgentRequest(bytes32)"}
NexusTxHashes == {"nexusTx1", "nexusTx2"}

NextInner ==
    \/ authorizeAgent(Owner, A1, "optimizer")
    \/ \E d \in ActionData :
          /\ NumRequests < MaxInnerRequests
          /\ createAgentRequest(A1, U1, d, now + ONE_DAY, 0)
    \/ \E c \in {U1, U2}, id \in DOMAIN agentRequests : executeAgentRequest(c, id)
    \/ setSupportedStakingToken(Owner, PYUSD_SEPOLIA, TRUE)
    \/ (positions[U1].depositCount < 1
          /\ depositCollateral(U1, PYUSD_SEPOLIA, 1000, FALSE, 0))
    \/ \E a \in {0, 1}, src \in {SEPOLIA, MAINNET} :
          /\ Cardinality(DOMAIN bridgeOperations) < MaxOperations
          /\ createBridgeOperation(U1, U1, a, src, AMOY)
    \/ \E id \in DOMAIN bridgeOperations, h \in NexusTxHashes, a \in {0, 100} :
          /\ stakingPositions[U1].stakedAmount < MaxBridgedStake
          /\ confirmBridgeAndStake(id, U1, PYUSD_SEPOLIA, a, h)
    \/ \E c \in Users, id \in DOMAIN bridgeOperations : cancelBridgeOperation(c, id)
    \/ (now < StartTime + MaxBridgeSteps * MIN_BRIDGE_INTERVAL
          /\ AdvanceTime(MIN_BRIDGE_INTERVAL))

SpecInner == Init /\ [][NextInner]_vars

(***************************************************************************)
(* Access control: every access-controlled function, called by holders     *)
(* and non-holders of the role, in every pause, request and token state    *)
(***************************************************************************)
MaxAuthRequests == 1
MaxAuthDays == 1
MaxAuthStake == 100
Outsiders == {U2, A2}

NextAuth ==
    \/ \E c \in {Owner, U2} : authorizeAgent(c, A1, "optimizer")
    \/ \E c \in {Owner, U2} : revokeAgent(c, A1)
    \/ \E c \in {A1, A2} :
          /\ NumRequests < MaxAuthRequests
          /\ createAgentRequest(c, U1, "0x", now + ONE_DAY, 0)
    \/ \E c \in {U1, U2}, id \in DOMAIN agentRequests : executeAgentRequest(c, id)
    \/ \E c \in {U1, U2}, id \in DOMAIN agentRequests : cancelRequest(c, id)
    \/ \E c \in {Owner, U2} : emergencyPause(c)
    \/ \E c \in {Owner, U2} : unpause(c)
    \/ (now < StartTime + MaxAuthDays * (ONE_DAY + 1) /\ AdvanceTime(ONE_DAY + 1))
    \/ \E c \in {Owner, U2}, b \in BOOLEAN : setSupportedStakingToken(c, PYUSD_SEPOLIA, b)
    \/ (positions[U1].depositCount < 1
          /\ depositCollateral(U1, PYUSD_SEPOLIA, 1000, FALSE, 0))
    \/ \E c \in {AIController, U2}, a \in {0, 100} :
          /\ stakingPositions[U1].stakedAmount < MaxAuthStake
          /\ aiControlledStake(c, U1, PYUSD_SEPOLIA, a, <<>>)
    \/ \E c \in {Owner, U2} : removeSupportedToken(c, PYUSD_MAINNET)
    \/ \E c \in {Owner, U2} : updateFees(c, 20, 20)

SpecAuth == Init /\ [][NextAuth]_vars

(***************************************************************************)
(* Oracle: priced collateral, quotes that age, and the ETH sent with calls *)
(***************************************************************************)
MaxOracleDeposits == 2
MaxOracleHours == 1
MaxOracleSeconds == 1
MaxEthKept == 1
OracleHours == (now - StartTime) \div STALE_PRICE_THRESHOLD
OracleSeconds == (now - StartTime) % STALE_PRICE_THRESHOLD
\* time passes in whole staleness thresholds first and in single seconds after
\* them, so that a quote is seen exactly at the threshold and just beyond it
\* update data and msg.value of a payable call: no data and no value, no
\* data with value, data with the exact fee, data with more than the fee
OracleCallValues == {<<FALSE, 0>>, <<FALSE, 1>>, <<TRUE, 1>>, <<TRUE, 2>>}
\* part of a balance, or all of it
OracleWithdrawals(t) ==
    IF t = STK THEN {500, positions[U1].tokenBalances[t]}
    ELSE {positions[U1].tokenBalances[t]}
\* a call that fails may always be made; successful ones are bounded
WithinOracleBound(res, hasUpdate, value) ==
    res = "ok" =>
        /\ positions[U1].depositCount < MaxOracleDeposits
        /\ cmEth + EthKept(hasUpdate, value) <= MaxEthKept

NextOracle ==
    \/ addSupportedToken(Owner, STK, ETH_USD, 0, 8000, StkMaxDeposit, FALSE)
    \/ setPrice(ETH_USD, 0, 0)
    \/ \E cv \in OracleCallValues :
          /\ WithinOracleBound(depositCollateralResult(U1, STK, 999, cv[1], cv[2]),
                               cv[1], cv[2])
          /\ depositCollateral(U1, STK, 999, cv[1], cv[2])
    \/ \E cv \in OracleCallValues :
          /\ WithinOracleBound(depositPYUSDResult(U1, 1000, cv[1], cv[2]), cv[1], cv[2])
          /\ depositPYUSD(U1, 1000, cv[1], cv[2])
    \/ \E t \in {PYUSD_SEPOLIA, STK}, cv \in OracleCallValues :
          \E a \in OracleWithdrawals(t) :
             /\ cmEth + EthKept(cv[1], cv[2]) <= MaxEthKept
             /\ withdrawCollateral(U1, t, a, cv[1], cv[2])
    \/ (OracleHours < MaxOracleHours /\ OracleSeconds = 0
          /\ AdvanceTime(STALE_PRICE_THRESHOLD))
    \/ (OracleHours = MaxOracleHours /\ OracleSeconds < MaxOracleSeconds
          /\ AdvanceTime(1))

SpecOracle == Init /\ [][NextOracle]_vars

(***************************************************************************)
(* Token configuration: deposits of a stablecoin, small and large, while   *)
(* the owner changes the fee and removes and re-adds the token             *)
(***************************************************************************)
MaxConfigDeposits == 2
MaxConfigCollateral == 1600000
\* the deposit of the test "Should check staking eligibility", in thousandths:
\* 1.5 units of a 6-decimal stablecoin against a stake value of 1 USD
TestedDeposit == 1500000
TestedStakeValue == Pow10(PRICE_PRECISION_DIGITS)
ConfigAmounts == {0, 1000, 1501, TestedDeposit}
\* update data without the fee, and with it
ConfigCallValues == {<<FALSE, 0>>, <<TRUE, 0>>, <<TRUE, 1>>}
SmallMaxDeposit == <<1500, 0>>
\* the configurations the owner re-adds the token with
Readded == {<<PYUSD_USD, 6>>, <<USDC_USD, 8>>}
\* a call that fails may always be made; successful deposits are bounded
WithinConfigBound(res, amount) ==
    res = "ok" =>
        /\ positions[U1].depositCount < MaxConfigDeposits
        /\ positions[U1].tokenBalances[PYUSD_SEPOLIA] + amount <= MaxConfigCollateral

NextConfig ==
    \/ (balanceOf[PYUSD_SEPOLIA][U1] < TestedDeposit
          /\ mint(PYUSD_SEPOLIA, U1, TestedDeposit))
    \/ \E a \in ConfigAmounts :
          /\ WithinConfigBound(depositCollateralResult(U1, PYUSD_SEPOLIA, a, FALSE, 0), a)
          /\ depositCollateral(U1, PYUSD_SEPOLIA, a, FALSE, 0)
    \/ \E a \in ConfigAmounts, cv \in ConfigCallValues :
          /\ WithinConfigBound(depositPYUSDResult(U1, a, cv[1], cv[2]), a)
          /\ depositPYUSD(U1, a, cv[1], cv[2])
    \/ \E f \in {10, 25} : updateFees(Owner, f, 20)
    \/ removeSupportedToken(Owner, PYUSD_SEPOLIA)
    \/ \E r \in Readded :
          addSupportedToken(Owner, PYUSD_SEPOLIA, r[1], r[2], 9500, SmallMaxDeposit, TRUE)

SpecConfig == Init /\ [][NextConfig]_vars

(***************************************************************************)
(* Payout: reward rates set by the owner and by the AI controller, the     *)
(* protocol fee, and a position staked beyond its first admission          *)
(***************************************************************************)
MaxPayoutWeeks == 2
MaxPayoutStake == 70000
PayoutAgentData == {<<>>, <<50>>, <<3000>>}
PayoutUnstakes(user) == {30000, stakingPositions[user].stakedAmount}

NextPayout ==
    \/ (now = StartTime /\ Setup)
    \/ updateBaseRewardRate(Owner, 50)
    \/ updateProtocolFeeRate(Owner, 1000)
    \/ (stakingPositions[U1].stakedAmount + 40000 <= MaxPayoutStake
          /\ stakeWithCollateral(U1, PYUSD_SEPOLIA, 40000))
    \/ \E d \in PayoutAgentData :
          /\ stakingPositions[U1].stakedAmount + 30000 <= MaxPayoutStake
          /\ aiControlledStake(AIController, U1, PYUSD_SEPOLIA, 30000, d)
    \/ (~stakingPositions[U1].unstakeRequested /\ requestUnstake(U1, 0))
    \/ \E a \in PayoutUnstakes(U1) : executeUnstake(U1, a)
    \/ ((now - StartTime) \div UNSTAKE_DELAY < MaxPayoutWeeks
          /\ AdvanceTime(UNSTAKE_DELAY))

SpecPayout == Init /\ [][NextPayout]_vars

(***************************************************************************)
(* Fee parameters: every owner-settable rate and the fee recipient, set to  *)
(* values at, inside and beyond their limits by the owner and by others     *)
(***************************************************************************)
FeeInputs == {0, 500, 501}
RecipientInputs == {ZERO, Treasury, U2}
ProtocolFeeInputs == {0, 1000, 1001}
BaseRateInputs == {0, 1, 2000, 2001}

NextFees ==
    \/ \E c \in {Owner, U1}, d \in FeeInputs, w \in FeeInputs : updateFees(c, d, w)
    \/ \E c \in {Owner, U1}, r \in RecipientInputs : updateFeeRecipient(c, r)
    \/ \E c \in {Owner, U1}, r \in ProtocolFeeInputs : updateProtocolFeeRate(c, r)
    \/ \E c \in {Owner, U1}, r \in BaseRateInputs : updateBaseRewardRate(c, r)

SpecFees == Init /\ [][NextFees]_vars

(***************************************************************************)
(* Withdrawal beside a stake: collateral is deposited, staked against and   *)
(* withdrawn, with and without price update data                            *)
(***************************************************************************)
MaxWithdrawDeposits == 2
MaxWithdrawStake == 40000
WithdrawAmounts(user, token) ==
    {0, 500, positions[user].tokenBalances[token],
     positions[user].tokenBalances[token] + 1}

NextWithdraw ==
    \/ setSupportedStakingToken(Owner, PYUSD_SEPOLIA, TRUE)
    \/ (positions[U1].depositCount < MaxWithdrawDeposits
          /\ depositCollateral(U1, PYUSD_SEPOLIA, 1000, FALSE, 0))
    \/ (stakingPositions[U1].stakedAmount + 40000 <= MaxWithdrawStake
          /\ stakeWithCollateral(U1, PYUSD_SEPOLIA, 40000))
    \/ (stakingPositions[U1].stakedAmount + 40000 <= MaxWithdrawStake
          /\ executeStakeAfterBridge(U1, PYUSD_SEPOLIA, 40000))
    \/ \E t \in {PYUSD_SEPOLIA, STK}, cv \in CallValues :
          \E a \in WithdrawAmounts(U1, t) : withdrawCollateral(U1, t, a, cv[1], cv[2])
    \/ \E c \in {Owner, U1} : removeSupportedToken(c, PYUSD_SEPOLIA)
    \/ (~stakingPositions[U1].unstakeRequested /\ requestUnstake(U1, 0))
    \/ \E a \in UnstakeAmounts(U1) : executeUnstake(U1, a)
    \/ (now = StartTime /\ AdvanceTime(UNSTAKE_DELAY))

SpecWithdraw == Init /\ [][NextWithdraw]_vars

(***************************************************************************)
(* Rate-limit view: one agent fills a user's hour bucket, across a pause    *)
(* and across the end of the hour                                           *)
(***************************************************************************)
MaxViewRequests == 11
MaxViewSeconds == 2

NextRateView ==
    \/ authorizeAgent(Owner, A1, "StrategyOptimizer")
    \/ \E u \in {U1, U2} :
          /\ NumRequests < MaxViewRequests
          /\ (u = U2 => StoredFor(U2, currentHour) = {})
          /\ createAgentRequest(A1, u, "0x", now + ONE_DAY, 0)
    \/ emergencyPause(Owner)
    \/ unpause(Owner)
    \/ (now < StartTime + MaxViewSeconds /\ AdvanceTime(1))

SpecRateView == Init /\ [][NextRateView]_vars

(***************************************************************************)
(* Staking ledger: two users stake two tokens through every stake function  *)
(* and unstake after the cooldown                                           *)
(***************************************************************************)
MaxLedgerStakes == 2
LedgerStakes == {<<PYUSD_SEPOLIA, 100>>, <<STK, 30>>}
\* the number of stakes still credited to the user
StakesHeld(user) ==
    liquidStakingBalances[user][PYUSD_SEPOLIA] \div 100
        + liquidStakingBalances[user][STK] \div 30
LedgerUnstakes(user) == {30, 100, stakingPositions[user].stakedAmount}

\* stakes and requests are made at the start, unstakes after the cooldown
NextLedger ==
    \/ \E t \in {PYUSD_SEPOLIA, STK} : setSupportedStakingToken(Owner, t, TRUE)
    \/ \E u \in Users :
          /\ positions[u].depositCount < 1
          /\ depositCollateral(u, PYUSD_SEPOLIA, 1000, FALSE, 0)
    \/ \E s \in LedgerStakes :
          /\ now = StartTime
          /\ StakesHeld(U1) < MaxLedgerStakes
          /\ stakeWithCollateral(U1, s[1], s[2])
    \/ \E u \in Users :
          /\ now = StartTime
          /\ StakesHeld(u) < (IF u = U1 THEN MaxLedgerStakes ELSE 1)
          /\ executeStakeAfterBridge(u, PYUSD_SEPOLIA, 100)
    \/ (now = StartTime
          /\ StakesHeld(U1) < MaxLedgerStakes
          /\ aiControlledStake(AIController, U1, STK, 30, <<>>))
    \/ \E u \in Users :
          /\ now = StartTime
          /\ ~stakingPositions[u].unstakeRequested
          /\ requestUnstake(u, stakingPositions[u].stakedAmount)
    \/ \E u \in Users : \E a \in LedgerUnstakes(u) : executeUnstake(u, a)
    \/ (now = StartTime /\ AdvanceTime(UNSTAKE_DELAY))

SpecLedger == Init /\ [][NextLedger]_vars

(***************************************************************************)
(* The owner's token list: every token is added and removed, in any order, *)
(* by the owner and by a stranger; a token is re-added with a deposit cap  *)
(* different from the one it started with.                                 *)
(***************************************************************************)
ListCaps == {PYUSD_MAX_DEPOSIT, StkMaxDeposit}

NextList ==
    \/ \E c \in {Owner, U1}, t \in Tokens, cap \in ListCaps :
          addSupportedToken(c, t, PYUSD_USD, 6, 9500, cap, TRUE)
    \/ \E c \in {Owner, U1}, t \in Tokens, th \in {8000, 9000} :
          addSupportedToken(c, t, ETH_USD, 18, th, StkMaxDeposit, FALSE)
    \/ \E c \in {Owner, U1}, t \in Tokens : removeSupportedToken(c, t)

SpecList == Init /\ [][NextList]_vars

(***************************************************************************)
(* Bridge operations of two users: created, confirmed by anyone, cancelled *)
(* by their user and completed by the owner, in any order.  No staking     *)
(* token is enabled, so the stake inside a confirmation is tried, reverts  *)
(* and is caught.                                                          *)
(***************************************************************************)
MaxBridgeOps == 2

NextBridge ==
    \/ \E c \in {U1, U2}, u \in {U1, U2} :
          /\ \/ OperationId(u, 1, SEPOLIA, AMOY) \in DOMAIN bridgeOperations
             \/ Cardinality(DOMAIN bridgeOperations) < MaxBridgeOps
          /\ createBridgeOperation(c, u, 1, SEPOLIA, AMOY)
    \/ \E id \in DOMAIN bridgeOperations, u \in {U1, U2}, h \in NexusTxHashes :
          confirmBridgeAndStake(id, u, PYUSD_SEPOLIA, 100, h)
    \/ \E c \in {U1, U2}, id \in DOMAIN bridgeOperations : cancelBridgeOperation(c, id)
    \/ \E c \in {Owner, U1}, id \in DOMAIN bridgeOperations, h \in NexusTxHashes :
          emergencyCompleteOperation(c, id, h)
    \/ (now < StartTime + MIN_BRIDGE_INTERVAL /\ AdvanceTime(MIN_BRIDGE_INTERVAL))

SpecBridge == Init /\ [][NextBridge]_vars

(***************************************************************************)
(* Cross-chain stakes of the earlier StakingProxy: two users with and      *)
(* without collateral, three bridge ids presented in any order and         *)
(* repeatedly, and a staking token that the owner enables and disables.    *)
(***************************************************************************)
MaxVariantStake == 40
VariantAmounts == {0, 10, 20, 30}

NextBridgeId ==
    \/ \E b \in BOOLEAN : setSupportedStakingToken(Owner, PYUSD_SEPOLIA, b)
    \/ \E u \in {U1, U2} :
          /\ positions[u].depositCount < 1
          /\ depositCollateral(u, PYUSD_SEPOLIA, 1000, FALSE, 0)
    \/ \E u \in {U1, U2}, t \in {PYUSD_SEPOLIA, STK}, a \in VariantAmounts,
          id \in BridgeIds :
          /\ \/ variantStakeAfterBridgeResult(u, t, a, id) # "ok"
             \/ totalStaked < MaxVariantStake
          /\ variantStakeAfterBridge(u, t, a, id)

SpecBridgeId == Init /\ [][NextBridgeId]_vars

(***************************************************************************)
(* Requests that carry value, executed and cancelled in any order; the     *)
(* user's receive hook calls cancelRequest and executeAgentRequest, for    *)
(* the request being refunded and for the user's other request, while the  *)
(* refund is in progress.                                                  *)
(***************************************************************************)
MaxRefundRequests == 2
RequestValues == {0, 1, 2}

NextRefund ==
    \/ (inFlight = NoCall /\ authorizeAgent(Owner, A1, "optimizer"))
    \/ \E u \in {U1, U2}, v \in RequestValues :
          /\ inFlight = NoCall
          /\ NumRequests < MaxRefundRequests
          /\ createAgentRequest(A1, u, "0x", now + ONE_DAY, v)
    \/ \E c \in {U1, Owner}, id \in DOMAIN agentRequests :
          inFlight = NoCall /\ executeAgentRequest(c, id)
    \/ \E c \in {U1, U2}, id \in DOMAIN agentRequests :
          inFlight = NoCall /\ cancelRequest(c, id)
    \/ \E id \in DOMAIN agentRequests : cancelRequestSuspend(U1, id)
    \/ \E id \in DOMAIN agentRequests :
          inFlight.op = "cancelRequest" /\ cancelRequest(U1, id)
    \/ \E id \in DOMAIN agentRequests :
          inFlight.op = "cancelRequest" /\ executeAgentRequest(U1, id)
    \/ cancelRequestResume

SpecRefund == Init /\ [][NextRefund]_vars

(***************************************************************************)
(* Claims                                                                  *)
(***************************************************************************)
AllCallers == {Owner, A1, A2, U1, U2}
ValidExpiries == {now + 1, now + ONE_DAY}
SomeExpiries == {now + off : off \in ExpiryOffsets}
EntitledToExecute(c, id) == c = Req(id).user \/ c \in ExecutorRole

\* C1 (as stated): on a request that is already terminal, a further
\* executeAgentRequest or cancelRequest by an entitled caller fails with
\* RequestAlreadyExecuted, at any later time and in any pause state.
C1_AsStated ==
    \A id \in DOMAIN agentRequests :
        Req(id).executed =>
            /\ \A c \in AllCallers :
                  EntitledToExecute(c, id) =>
                      executeAgentRequestResult(c, id) = "RequestAlreadyExecuted"
            /\ cancelRequestResult(Req(id).user, id) = "RequestAlreadyExecuted"

\* C1 (amended): once a request is terminal it stays terminal, a further
\* cancelRequest by its user always fails with RequestAlreadyExecuted, and a
\* further executeAgentRequest by an entitled caller fails with
\* RequestAlreadyExecuted while the contract is not paused and with
\* EnforcedPause while it is paused.
C1_SecondCallFails ==
    /\ [](\A id \in DOMAIN agentRequests :
            Req(id).executed =>
                /\ \A c \in AllCallers :
                      EntitledToExecute(c, id) =>
                          executeAgentRequestResult(c, id) =
                              (IF paused THEN "EnforcedPause"
                               ELSE "RequestAlreadyExecuted")
                /\ cancelRequestResult(Req(id).user, id) = "RequestAlreadyExecuted")
    /\ [][\A id \in DOMAIN agentRequests :
            Req(id).executed =>
                id \in DOMAIN agentRequests' /\ agentRequests'[id].executed]_vars

\* a request is terminal, time has passed since it was created, and the
\* contract is paused
C1_Witness ==
    \E id \in DOMAIN agentRequests :
        /\ Req(id).executed
        /\ requestEvents # {}
        /\ now > Req(id).timestamp
        /\ paused

\* C2 (as stated): once an agent has made 10 requests in the current hour
\* bucket, its next createAgentRequest fails with RateLimitExceeded whatever
\* the user argument.
C2_AsStated ==
    \A a \in agentRole :
        (~paused /\ Cardinality(StoredBy(a, currentHour)) >= MAX_REQUESTS_PER_HOUR) =>
            \A u \in {U1, U2}, e \in ValidExpiries :
                createAgentRequestResult(a, u, e) = "RateLimitExceeded"

\* C2 (amended): the limit is per user.  At most 10 requests are stored for a
\* user in one hour bucket; once 10 are stored for the user in the current
\* bucket, every further createAgentRequest for that user fails with
\* RateLimitExceeded, whichever agent makes it; with fewer (in particular in
\* a fresh bucket) an otherwise valid call succeeds.
C2_PerUserRateLimit ==
    \A u \in {U1, U2} :
        /\ \A h \in (StartTime \div HOUR) .. currentHour :
              /\ Cardinality(StoredFor(u, h)) <= MAX_REQUESTS_PER_HOUR
              /\ RequestsPerHour(u, h) = Cardinality(StoredFor(u, h))
        /\ ~paused =>
              \A a \in agentRole, e \in ValidExpiries :
                  createAgentRequestResult(a, u, e) =
                      (IF Cardinality(StoredFor(u, currentHour)) >= MAX_REQUESTS_PER_HOUR
                       THEN "RateLimitExceeded" ELSE "ok")
        /\ checkRateLimit(u) =
              (Cardinality(StoredFor(u, currentHour)) < MAX_REQUESTS_PER_HOUR)

\* ten requests were stored for a user in the previous bucket and the first
\* call of the next bucket went through
C2_Witness ==
    \E u \in {U1, U2} :
        /\ Cardinality(StoredFor(u, currentHour - 1)) = MAX_REQUESTS_PER_HOUR
        /\ Cardinality(StoredFor(u, currentHour)) >= 1

\* C9 (as stated): while paused, every createAgentRequest and every
\* executeAgentRequest fails with EnforcedPause, and cancelRequest by the
\* user of a non-terminal request succeeds.
C9_AsStated ==
    paused =>
        /\ \A c \in AllCallers, u \in {U1, U2, ZERO}, e \in SomeExpiries :
              createAgentRequestResult(c, u, e) = "EnforcedPause"
        /\ \A c \in AllCallers, id \in SomeIds :
              executeAgentRequestResult(c, id) = "EnforcedPause"
        /\ \A id \in DOMAIN agentRequests :
              ~Req(id).executed => cancelRequestResult(Req(id).user, id) = "ok"

\* C9 (amended): while paused, createAgentRequest by a holder of AGENT_ROLE
\* and executeAgentRequest by any caller fail with EnforcedPause (a caller
\* without AGENT_ROLE gets AccessControlUnauthorizedAccount from
\* createAgentRequest), no request is created or executed and no rate-limit
\* counter moves, and cancelRequest by the user of a non-terminal request
\* succeeds.
C9_PauseSemantics ==
    /\ [](paused =>
            /\ \A c \in AllCallers, u \in {U1, U2, ZERO}, e \in SomeExpiries :
                  createAgentRequestResult(c, u, e) =
                      (IF c \in agentRole THEN "EnforcedPause"
                       ELSE "AccessControlUnauthorizedAccount")
            /\ \A c \in AllCallers, id \in SomeIds :
                  executeAgentRequestResult(c, id) = "EnforcedPause"
            /\ \A id \in DOMAIN agentRequests :
                  ~Req(id).executed => cancelRequestResult(Req(id).user, id) = "ok")
    /\ [][paused =>
            /\ DOMAIN agentRequests' = DOMAIN agentRequests
            /\ agentRequestCounts' = agentRequestCounts
            /\ userRequestsPerHour' = userRequestsPerHour
            /\ \A id \in DOMAIN agentRequests :
                  <<"RequestExecuted", id>> \in requestEvents' =>
                      <<"RequestExecuted", id>> \in requestEvents]_vars

\* paused, with an authorised agent, a pending request and a cancelled one
C9_Witness ==
    /\ paused
    /\ agentRole # {}
    /\ \E id \in DOMAIN agentRequests : ~Req(id).executed
    /\ \E id \in DOMAIN agentRequests : <<"RequestCancelled", id>> \in requestEvents

\* C10 (as stated): a request becomes terminal only at a time not after its
\* expiry.
C10_AsStated ==
    [][\A id \in DOMAIN agentRequests :
          (~Req(id).executed /\ agentRequests'[id].executed) =>
              now <= Req(id).expiry]_vars

\* C10 (amended): executeAgentRequest never succeeds after the expiry and a
\* request is marked RequestExecuted only at a time not after its expiry
\* (cancelRequest by the user succeeds at any time, also after the expiry);
\* a stored request is never deleted and, once terminal, never changes.
C10_Lifecycle ==
    /\ [](\A c \in AllCallers, id \in SomeIds :
            now > Req(id).expiry => executeAgentRequestResult(c, id) # "ok")
    /\ [][\A id \in DOMAIN agentRequests :
            /\ id \in DOMAIN agentRequests'
            /\ Req(id).executed => agentRequests'[id] = agentRequests[id]
            /\ (<<"RequestExecuted", id>> \in requestEvents' \ requestEvents) =>
                  now <= Req(id).expiry]_vars

\* a request that was cancelled, seen after its expiry
C10_Witness ==
    \E id \in DOMAIN agentRequests :
        /\ <<"RequestCancelled", id>> \in requestEvents
        /\ Req(id).executed
        /\ now > Req(id).expiry

\* C4 (as stated): for every user and token, the sum of the net deposited
\* amounts minus the sum of the net withdrawn amounts (what the user received)
\* equals the user's tokenBalances[token].
C4_AsStated ==
    \A u \in Users, t \in Tokens :
        collateralLedger[u][t].deposited - collateralLedger[u][t].withdrawn
            = positions[u].tokenBalances[t]

\* C4 (amended): a withdrawal debits the requested amount, fee included: the
\* sum of the net deposited amounts minus the sum of the amounts received on
\* withdrawal and of the withdrawal fees paid to the fee recipient equals the
\* user's tokenBalances[token].
C4_Conservation ==
    \A u \in Users, t \in Tokens :
        collateralLedger[u][t].deposited
            - (collateralLedger[u][t].withdrawn + collateralLedger[u][t].withdrawalFees)
            = positions[u].tokenBalances[t]

\* a user has deposited and has withdrawn with a non-zero withdrawal fee
C4_Witness ==
    \E u \in Users, t \in Tokens :
        /\ collateralLedger[u][t].deposited > 0
        /\ collateralLedger[u][t].withdrawn > 0
        /\ collateralLedger[u][t].withdrawalFees > 0
        /\ positions[u].tokenBalances[t] > 0

\* the sum over the currently supported tokens of valueUSD(balance[token]) at
\* the quotes of the user's last valuation
RECURSIVE RecomputedFrom(_, _)
RecomputedFrom(i, user) ==
    IF i > Len(supportedTokens) THEN 0
    ELSE valueUSD(tokenConfigs[supportedTokens[i]],
                  positions[user].tokenBalances[supportedTokens[i]],
                  quotesSeen[user])
         + RecomputedFrom(i + 1, user)

\* C5 (as stated): in every state, for every user the cached totalValueUSD is
\* within 1 unit of the value recomputed from scratch over the currently
\* supported tokens at the prices of the user's last update.
C5_AsStated ==
    \A u \in Users :
        /\ positions[u].totalValueUSD - RecomputedFrom(1, u) <= 1
        /\ RecomputedFrom(1, u) - positions[u].totalValueUSD <= 1

\* the amounts a claim about unstaking is evaluated for
AmountsUpToStake(user) ==
    {a \in {0, 1, stakingPositions[user].stakedAmount} :
        a <= stakingPositions[user].stakedAmount}

\* C3 (as stated): with an unstake requested at time T, executeUnstake(amount)
\* with amount <= stakedAmount fails with UnstakeDelayNotMet at every time up
\* to T + 7 days - 1 second and succeeds at exactly T + 7 days.
C3_AsStated ==
    \A u \in Users : \A a \in AmountsUpToStake(u) :
        stakingPositions[u].unstakeRequested =>
            /\ now <= stakingPositions[u].unstakeRequestTime + UNSTAKE_DELAY - 1
                  => executeUnstakeResult(u, a) = "UnstakeDelayNotMet"
            /\ now = stakingPositions[u].unstakeRequestTime + UNSTAKE_DELAY
                  => executeUnstakeResult(u, a) = "ok"

\* the calls a claim about stake admission is evaluated for
StakeTokens == Tokens
StakeAmounts == {0, 1, 32, 33, 40000, 65934, 65935}
StakeCallers == {AIController, Owner, U1}
Admissible(user, token, amount) ==
    /\ token \in supportedStakingTokens
    /\ amount > 0
    /\ positions[user].totalValueUSD * (10000 \div RatioUnit)
           >= calculateStakeValueUSD(token, amount) * (15000 \div RatioUnit)
\* the error the claim assigns to a call that is not admissible
AdmissionError(user, token, amount) ==
    IF token \notin supportedStakingTokens THEN "TokenNotSupported"
    ELSE IF amount = 0 THEN "InvalidAmount"
    ELSE "InsufficientCollateral"
\* a stake is credited only for an admissible call
StakeOnlyIfAdmissible ==
    [][\A u \in Users :
          stakingPositions'[u].stakedAmount > stakingPositions[u].stakedAmount =>
              \E t \in Tokens :
                  /\ Admissible(u, t, stakingPositions'[u].stakedAmount
                                          - stakingPositions[u].stakedAmount)
                  /\ liquidStakingBalances'[u][t] - liquidStakingBalances[u][t]
                        = stakingPositions'[u].stakedAmount
                              - stakingPositions[u].stakedAmount]_vars

\* C7 (as stated): each of the three stake functions succeeds only for an
\* admissible call, and a call that is not admissible fails with
\* TokenNotSupported, InvalidAmount or InsufficientCollateral respectively,
\* whoever makes it, and credits no stake.
C7_AsStated ==
    \A c \in StakeCallers, u \in Users, t \in StakeTokens, a \in StakeAmounts :
        ~Admissible(u, t, a) =>
            /\ executeStakeAfterBridgeResult(u, t, a) = AdmissionError(u, t, a)
            /\ stakeWithCollateralResult(u, t, a) = AdmissionError(u, t, a)
            /\ aiControlledStakeResult(c, u, t, a) = AdmissionError(u, t, a)

\* C7 (amended): each of the three stake functions succeeds only for an
\* admissible call; a call that is not admissible fails with TokenNotSupported,
\* InvalidAmount or InsufficientCollateral respectively, except that
\* aiControlledStake by a caller other than the AI controller fails with
\* OnlyAIController whatever its arguments; a stake is credited only for an
\* admissible call.
C7_Admission ==
    /\ [](\A c \in StakeCallers, u \in Users, t \in StakeTokens, a \in StakeAmounts :
            /\ executeStakeAfterBridgeResult(u, t, a) = "ok" => Admissible(u, t, a)
            /\ stakeWithCollateralResult(u, t, a) = "ok" => Admissible(u, t, a)
            /\ aiControlledStakeResult(c, u, t, a) = "ok" =>
                  Admissible(u, t, a) /\ c = AIController
            /\ c # AIController => aiControlledStakeResult(c, u, t, a) = "OnlyAIController"
            /\ ~Admissible(u, t, a) =>
                  /\ executeStakeAfterBridgeResult(u, t, a) = AdmissionError(u, t, a)
                  /\ stakeWithCollateralResult(u, t, a) = AdmissionError(u, t, a)
                  /\ c = AIController =>
                        aiControlledStakeResult(c, u, t, a) = AdmissionError(u, t, a))
    /\ StakeOnlyIfAdmissible

\* a stake has been admitted and calls of each rejected kind exist
C7_Witness ==
    /\ stakingPositions[U1].stakedAmount > 0
    /\ positions[U1].totalValueUSD > 0
    /\ PYUSD_MAINNET \notin supportedStakingTokens
    /\ \E t \in StakeTokens, a \in StakeAmounts :
          /\ t \in supportedStakingTokens
          /\ a > 0
          /\ ~Admissible(U1, t, a)
          /\ aiControlledStakeResult(AIController, U1, t, a) = "InsufficientCollateral"

\* the USD value of everything the user has staked, token by token
StakedValueUSD(user) ==
    calculateStakeValueUSD(PYUSD_MAINNET, liquidStakingBalances[user][PYUSD_MAINNET])
    + calculateStakeValueUSD(PYUSD_SEPOLIA, liquidStakingBalances[user][PYUSD_SEPOLIA])
    + calculateStakeValueUSD(STK, liquidStakingBalances[user][STK])

\* C8 (as stated): immediately after any successful stake the user's
\* collateral valuation * 10000 is at least the USD value of the user's
\* total staked amount * 15000.
C8_AsStated ==
    [][\A u \in Users :
          stakingPositions'[u].stakedAmount > stakingPositions[u].stakedAmount =>
              positions'[u].totalValueUSD * (BASIS_POINTS \div RatioUnit)
                  >= StakedValueUSD(u)' * (COLLATERAL_RATIO \div RatioUnit)]_vars

\* the accrual the claim's formula gives for the time since the reading
AccrualSinceReading(user) ==
    AccruedRewards(stakingPositions[user].stakedAmount,
                   stakingPositions[user].rewardRate,
                   now - rewardLog[user].time)

\* C6 (as stated): for a position with fixed rewardRate and no stake change
\* since a reading at t1, the pending reward now is at least the reading and
\* equals the reading plus stakedAmount * rewardRate * (now - t1) /
\* (10000 * 31536000) within one unit, however many settlements occurred.
C6_AsStated ==
    \A u \in Users :
        rewardLog[u].steady =>
            /\ pendingRewards(u) >= rewardLog[u].pendingRewards
            /\ pendingRewards(u)
                   - (rewardLog[u].pendingRewards + AccrualSinceReading(u)) <= 1
            /\ (rewardLog[u].pendingRewards + AccrualSinceReading(u))
                   - pendingRewards(u) <= 1

\* C6 (amended): for a position with fixed rewardRate, no stake change and no
\* executeUnstake since a reading at t1, the pending reward now is at least
\* the reading, exceeds the reading plus the formula's accrual by at most one
\* unit and falls short of it by at most one unit per settlement since t1;
\* a settlement stores exactly the pending reward getStakingInfo reports.
C6_Accrual ==
    /\ [](\A u \in Users :
            rewardLog[u].steady =>
                /\ pendingRewards(u) >= rewardLog[u].pendingRewards
                /\ pendingRewards(u)
                       <= rewardLog[u].pendingRewards + AccrualSinceReading(u) + 1
                /\ pendingRewards(u)
                       >= rewardLog[u].pendingRewards + AccrualSinceReading(u)
                              - rewardLog[u].settlements)
    /\ [][\A u \in Users :
            (rewardLog[u].steady /\ rewardLog'[u].settlements > rewardLog[u].settlements)
                => /\ stakingPositions'[u].accumulatedRewards = pendingRewards(u)
                   /\ stakingPositions'[u].lastRewardUpdate = now
                   /\ stakingPositions'[u].stakedAmount = stakingPositions[u].stakedAmount
                   /\ stakingPositions'[u].rewardRate = stakingPositions[u].rewardRate]_vars

\* two settlements since the reading have cost two units
C6_Witness ==
    /\ rewardLog[U1].steady
    /\ rewardLog[U1].settlements >= 2
    /\ pendingRewards(U1)
           = rewardLog[U1].pendingRewards + AccrualSinceReading(U1) - 2

(***************************************************************************)
(* C11: re-entrant calls                                                   *)
(***************************************************************************)
\* the storage of each ledger, without the model's history variables
CollateralStorage == <<positions, tokenConfigs, supportedTokens, depositFee,
                       withdrawalFee, feeRecipient, cmEth>>
StakingStorage == <<stakingPositions, supportedStakingTokens, totalStakedPerToken,
                    liquidStakingBalances, baseAnnualRewardRate, protocolFeeRate,
                    totalProtocolRewards>>
\* a step taken by the code that holds control while a call stays suspended
WhileSuspended == inFlight # NoCall /\ inFlight' = inFlight

C12_AsStated ==
    /\ \A id \in DOMAIN selfCalls : ~selfCalls[id] => ~agentRequests[id].executed
    /\ \A e \in bridgeEvents : ~e[2] => ~bridgeOperations[e[1]].completed

(***************************************************************************)
(* C13: authorization is checked first                                     *)
(***************************************************************************)
AnyCaller == AllCallers \cup {AIController}
AnyUser == {U1, U2, ZERO}
AnyToken == Tokens \cup {ZERO}
AnyAmount == {0, 100}
NotOwner(c) == c # Owner
\* the access-controlled functions other than executeAgentRequest: a caller
\* without the role, or who is not the request's user, the AI controller or
\* the owner, gets the function's authorization error whatever the arguments
RejectedFirst ==
    /\ \A c \in AnyCaller \ agentRole, u \in AnyUser, e \in SomeExpiries :
          createAgentRequestResult(c, u, e) = "AccessControlUnauthorizedAccount"
    /\ \A c \in AnyCaller \ DefaultAdminRole, a \in {A1, ZERO} :
          /\ authorizeAgentResult(c, a) = "AccessControlUnauthorizedAccount"
          /\ revokeAgentResult(c) = "AccessControlUnauthorizedAccount"
          /\ unpauseResult(c) = "AccessControlUnauthorizedAccount"
    /\ \A c \in AnyCaller \ EmergencyRole :
          emergencyPauseResult(c) = "AccessControlUnauthorizedAccount"
    /\ \A c \in AnyCaller, id \in SomeIds :
          c # Req(id).user => cancelRequestResult(c, id) = "UnauthorizedAgent"
    /\ \A c \in AnyCaller \ {AIController}, u \in {U1, U2}, t \in AnyToken, a \in AnyAmount :
          aiControlledStakeResult(c, u, t, a) = "OnlyAIController"
    /\ \A c \in AnyCaller, t \in AnyToken, f \in {20, 501}, r \in {Treasury, ZERO}, n \in {0, 400} :
          NotOwner(c) =>
              /\ removeSupportedTokenResult(c, t) = "OwnableUnauthorizedAccount"
              /\ updateFeesResult(c, f, f) = "OwnableUnauthorizedAccount"
              /\ updateFeeRecipientResult(c, r) = "OwnableUnauthorizedAccount"
              /\ updateBaseRewardRateResult(c, n) = "OwnableUnauthorizedAccount"

\* C13 (as stated): for every access-controlled operation, a call by an
\* unauthorized caller fails with the authorization error whatever the other
\* arguments and whatever the state (paused, request executed or expired,
\* unsupported token, zero amount); for executeAgentRequest the error is
\* UnauthorizedAgent.
C13_AsStated ==
    /\ RejectedFirst
    /\ \A c \in AnyCaller, id \in SomeIds :
          ~EntitledToExecute(c, id) =>
              executeAgentRequestResult(c, id) = "UnauthorizedAgent"

\* C13 (amended): createAgentRequest, cancelRequest, authorizeAgent,
\* revokeAgent, emergencyPause, unpause, aiControlledStake and the owner-only
\* functions reject an unauthorized caller with their authorization error
\* before any other check; executeAgentRequest rejects an unauthorized caller
\* with UnauthorizedAgent only while the controller is not paused, and with
\* EnforcedPause while it is paused; in both cases before the request's
\* executed flag and expiry are looked at.
C13_AuthorizationFirst ==
    /\ RejectedFirst
    /\ \A c \in AnyCaller, id \in SomeIds :
          ~EntitledToExecute(c, id) =>
              executeAgentRequestResult(c, id) =
                  (IF paused THEN "EnforcedPause" ELSE "UnauthorizedAgent")

\* the controller is paused and holds an executed request that has expired;
\* a token has been removed and the staking token is not supported: an
\* outsider calls with a zero amount
C13_Witness ==
    /\ paused
    /\ \E id \in DOMAIN agentRequests :
          /\ Req(id).executed /\ now > Req(id).expiry
          /\ ~EntitledToExecute(U2, id)
          /\ executeAgentRequestResult(U2, id) = "EnforcedPause"
          /\ cancelRequestResult(U2, id) = "UnauthorizedAgent"
    /\ ~tokenConfigs[PYUSD_MAINNET].isSupported
    /\ PYUSD_SEPOLIA \notin supportedStakingTokens
    /\ stakeChecks(U1, PYUSD_SEPOLIA, 0) = "TokenNotSupported"
    /\ aiControlledStakeResult(U2, U1, PYUSD_SEPOLIA, 0) = "OnlyAIController"

(***************************************************************************)
(* C14: refund of excess msg.value                                         *)
(***************************************************************************)
\* C14 (as stated): no depositPYUSD, depositCollateral or withdrawCollateral
\* call changes the ETH balance of the CollateralManager: what is sent beyond
\* the oracle's fee goes back to the caller, also when priceUpdateData is
\* empty.
C14_AsStated == [][cmEth' = cmEth]_vars

(***************************************************************************)
(* C15: stale or non-positive quotes                                       *)
(***************************************************************************)
OracleErrors == {"StalePrice", "InvalidPriceUpdate"}
BadQuote(quote) == quote.price <= 0 \/ now - quote.publishTime > STALE_PRICE_THRESHOLD
\* the user's balances hold a supported non-stablecoin token whose quote is
\* non-positive or older than the threshold
HoldsBadlyQuoted(balances, quotes) ==
    \E i \in 1..Len(supportedTokens) :
       LET t == supportedTokens[i] IN
       /\ balances[t] > 0
       /\ ~tokenConfigs[t].isStablecoin
       /\ BadQuote(quotes[tokenConfigs[t].pythPriceId])
\* the checks a deposit or withdrawal makes before the valuation
DepositReachesValuation(caller, token, amount, hasUpdate, value) ==
    /\ tokenConfigs[token].isSupported
    /\ amount > 0
    /\ ~ExceedsMax(amount, tokenConfigs[token].maxDepositAmount)
    /\ hasUpdate => value >= updateFee
    /\ balanceOf[token][caller] >= amount
WithdrawReachesValuation(caller, token, amount, hasUpdate, value) ==
    /\ tokenConfigs[token].isSupported
    /\ amount > 0
    /\ positions[caller].tokenBalances[token] >= amount
    /\ hasUpdate => value >= updateFee
OracleAmounts == {0, 500, 999, 1000}

\* C15 (as stated): while the user holds a positive balance of a supported
\* non-stablecoin token whose latest quote is non-positive or older than
\* 3600 s, every deposit and every withdrawal by that user fails.
C15_AsStated ==
    HoldsBadlyQuoted(positions[U1].tokenBalances, pythPrices) =>
        \A t \in Tokens, a \in OracleAmounts \ {0}, cv \in OracleCallValues :
           /\ depositCollateralResult(U1, t, a, cv[1], cv[2]) # "ok"
           /\ withdrawCollateralResult(U1, t, a, cv[1], cv[2]) # "ok"

\* C15 (amended): a deposit or withdrawal that passes the checks made before
\* the valuation fails with StalePrice or InvalidPriceUpdate exactly when,
\* with the balances as the call would leave them and the quotes as the call's
\* own price update leaves them, the user holds a positive balance of a
\* supported non-stablecoin token whose quote has price <= 0 or is older than
\* 3600 s; a quote exactly 3600 s old is accepted.  A call that fails leaves
\* the position unchanged, so a position never changes into one that holds a
\* badly quoted token.
C15_StalenessFailsValuation ==
    /\ [](\A t \in Tokens, a \in OracleAmounts, cv \in OracleCallValues :
            /\ DepositReachesValuation(U1, t, a, cv[1], cv[2]) =>
                  LET res == depositCollateralResult(U1, t, a, cv[1], cv[2])
                      bad == HoldsBadlyQuoted(BalancesAfterDeposit(U1, t, a),
                                              QuotesAfter(cv[1]))
                  IN /\ bad <=> res \in OracleErrors
                     /\ ~bad <=> res = "ok"
            /\ WithdrawReachesValuation(U1, t, a, cv[1], cv[2]) =>
                  LET res == withdrawCollateralResult(U1, t, a, cv[1], cv[2])
                      bad == HoldsBadlyQuoted(BalancesAfterWithdraw(U1, t, a),
                                              QuotesAfter(cv[1]))
                  IN /\ bad <=> res \in OracleErrors
                     /\ ~bad <=> res = "ok")
    /\ [][\A u \in Users :
            positions'[u] # positions[u] =>
                /\ ~HoldsBadlyQuoted(positions'[u].tokenBalances, pythPrices')
                /\ positions'[u].lastPriceUpdate = now]_vars

\* the user holds the priced token; a call was accepted when its quote was
\* exactly 3600 s old; now the quote is 3601 s old: a deposit of another
\* token fails with StalePrice, a withdrawal of the whole priced balance and
\* a call that brings fresh quotes succeed
C15_Witness ==
    /\ positions[U1].tokenBalances[STK] > 0
    /\ pythPrices[ETH_USD].price > 0
    /\ now - pythPrices[ETH_USD].publishTime = STALE_PRICE_THRESHOLD + 1
    /\ positions[U1].lastPriceUpdate = now - 1
    /\ depositPYUSDResult(U1, 1000, FALSE, 0) = "StalePrice"
    /\ withdrawCollateralResult(U1, STK, 500, FALSE, 0) = "StalePrice"
    /\ withdrawCollateralResult(U1, STK, positions[U1].tokenBalances[STK], FALSE, 0) = "ok"
    /\ depositPYUSDResult(U1, 1000, TRUE, 1) = "ok"

(***************************************************************************)
(* C16: scale of the non-stablecoin valuation                              *)
(***************************************************************************)
\* the user's only collateral is the priced token
HoldsOnlyPriced(user) ==
    /\ positions[user].tokenBalances[STK] > 0
    /\ ~tokenConfigs[STK].isStablecoin
    /\ \A t \in Tokens \ {STK} : positions[user].tokenBalances[t] = 0
\* b * p * 10^e / 10^d: the value of the balance in whole USD
WholeUSD(balance, decimals, quote) ==
    IF quote.expo >= 0
    THEN (balance * quote.price * Pow10(quote.expo)) \div Pow10(decimals)
    ELSE (balance * quote.price) \div (Pow10(decimals) * Pow10(-quote.expo))

\* C16 (as stated): a non-stablecoin balance b with quote (p, e) and decimals
\* d contributes b * p * 10^e * 10^8 / 10^d to totalValueUSD, so the whole
\* dollars of a position that holds only this token, totalValueUSD / 10^8,
\* are b * p * 10^e / 10^d.
C16_AsStated ==
    \A u \in Users :
       HoldsOnlyPriced(u) =>
           positions[u].totalValueUSD \div Pow10(PRICE_PRECISION_DIGITS) =
               WholeUSD(positions[u].tokenBalances[STK], tokenConfigs[STK].decimals,
                        quotesSeen[u][tokenConfigs[STK].pythPriceId])

(***************************************************************************)
(* C17: deposit fee and stablecoin valuation                               *)
(***************************************************************************)
\* floor(b * 99 * 1e8 / (100 * 10^d)), computed as b * 99 * 10^6 / 10^d
HaircutValue(b, d) == MulDivMod(b * 99, Pow10(PRICE_PRECISION_DIGITS - 2), Pow10(d))[1]
\* the sum of the haircut values of the supported stablecoins
SumOfHaircutValues(balances, configs) ==
    LET v(t) == IF configs[t].isSupported /\ configs[t].isStablecoin
                THEN HaircutValue(balances[t], configs[t].decimals) ELSE 0
    IN v(PYUSD_MAINNET) + v(PYUSD_SEPOLIA) + v(STK)
\* a step in which `user` deposits `token`
DepositStep(user, token) ==
    /\ positions'[user].depositCount = positions[user].depositCount + 1
    /\ balanceOf'[token][user] < balanceOf[token][user]

\* C17: a successful deposit of amount a (what the user's wallet pays) at
\* depositFee f credits the user a - floor(a * f / 10000), pays
\* floor(a * f / 10000) to feeRecipient, leaves the credited amount in the
\* contract, and sets totalValueUSD to the sum over the supported stablecoins
\* of floor(b * 99 * 1e8 / (100 * 10^d)) over the new balances.
C17_DepositFeeAndValue ==
    [][\A u \in Users, t \in Tokens :
          DepositStep(u, t) =>
              LET a == balanceOf[t][u] - balanceOf'[t][u]
                  fee == (a * depositFee) \div 10000
              IN /\ positions'[u].tokenBalances[t] =
                        positions[u].tokenBalances[t] + (a - fee)
                 /\ balanceOf'[t][feeRecipient] = balanceOf[t][feeRecipient] + fee
                 /\ balanceOf'[t][CM] = balanceOf[t][CM] + (a - fee)
                 /\ positions'[u].totalValueUSD =
                        SumOfHaircutValues(positions'[u].tokenBalances, tokenConfigs)]_vars

\* 1000 units at 0.1% credit 999 units worth 98901, and the recipient got 1;
\* a second deposit of 1501 units at 0.25% paid floor(3.7525) = 3
C17_Witness ==
    /\ positions[U1].depositCount = 2
    /\ positions[U1].tokenBalances[PYUSD_SEPOLIA] = 999 + 1498
    /\ balanceOf[PYUSD_SEPOLIA][FeeRecipient] = 1 + 3
    /\ tokenConfigs[PYUSD_SEPOLIA].decimals = 6
    /\ positions[U1].totalValueUSD = (999 + 1498) * 99

(***************************************************************************)
(* C18: staking eligibility after the tested deposit                       *)
(***************************************************************************)
\* the user's only deposit is TestedDeposit at the default fee of 10 bps
TestedPosition(user) ==
    /\ positions[user].depositCount = 1
    /\ positions[user].tokenBalances[PYUSD_SEPOLIA] =
           TestedDeposit - (TestedDeposit * 10) \div 10000
\* the largest stake value that collateral worth `value` supports at 150%
LargestStake(value) == (value * 2) \div 3
StakeValues == {0, 1, 98901000, 98901001, TestedStakeValue}

C19_AsStated ==
    \A u \in Users, a \in ConfigAmounts \ {0}, cv \in ConfigCallValues :
       tokenConfigs[PYUSD_SEPOLIA].isSupported =>
           LET over == ExceedsMax(a, tokenConfigs[PYUSD_SEPOLIA].maxDepositAmount) IN
           /\ depositCollateralResult(u, PYUSD_SEPOLIA, a, cv[1], cv[2])
                  = "ExceedsMaxDeposit" <=> over
           /\ depositPYUSDResult(u, a, cv[1], cv[2]) = "ExceedsMaxDeposit" <=> over

(***************************************************************************)
(* C20: pythPriceId and decimals of an added token                         *)
(***************************************************************************)
\* C20 (as stated): once a token has been added, no addSupportedToken or
\* removeSupportedToken call changes its pythPriceId or its decimals.
C20_AsStated ==
    [][\A t \in Tokens :
          tokenConfigs[t] # ZeroConfig =>
              /\ tokenConfigs'[t].pythPriceId = tokenConfigs[t].pythPriceId
              /\ tokenConfigs'[t].decimals = tokenConfigs[t].decimals]_vars

(***************************************************************************)
(* C21: bounds of a position's reward rate                                 *)
(***************************************************************************)
\* C21: every active staking position has a rewardRate of at least 100 and at
\* most 2000 basis points.
C21_AsStated ==
    \A u \in Users :
        stakingPositions[u].isActive
            => /\ stakingPositions[u].rewardRate >= 100
               /\ stakingPositions[u].rewardRate <= 2000

\* C21 (amended): every active staking position has a rewardRate of at least 1
\* and at most 2000 basis points, and so has the base rate; the lower bound
\* of 100 applies only to a rate decoded from agentData.
C21_RateBounds ==
    /\ baseAnnualRewardRate >= 1
    /\ baseAnnualRewardRate <= 2000
    /\ \A u \in Users :
           stakingPositions[u].isActive
               => /\ stakingPositions[u].rewardRate >= 1
                  /\ stakingPositions[u].rewardRate <= 2000

\* a position entered at a base rate below 100 and staked into again by the
\* AI controller with agentData shorter than 32 bytes
C21_Witness ==
    /\ stakingPositions[U1].isActive
    /\ stakingPositions[U1].rewardRate = 50
    /\ stakingPositions[U1].stakedAmount = 70000
    /\ baseAnnualRewardRate = 50

(***************************************************************************)
(* C22: active positions and empty positions                               *)
(***************************************************************************)
ActiveIffStaked ==
    \A u \in Users :
        stakingPositions[u].isActive <=> stakingPositions[u].stakedAmount > 0

\* C22: in every reachable state a position is active exactly when its
\* stakedAmount is positive, and across every step that leaves stakedAmount
\* at zero, the passage of time included, the position's accumulatedRewards
\* and the pendingRewards that getStakingInfo reports do not change.
C22_ActiveIffStaked ==
    /\ ActiveIffStaked
    /\ [][/\ ActiveIffStaked'
          /\ \A u \in Users :
                (stakingPositions[u].stakedAmount = 0
                    /\ stakingPositions'[u].stakedAmount = 0)
                => /\ stakingPositions'[u].accumulatedRewards
                          = stakingPositions[u].accumulatedRewards
                   /\ pendingRewards(u)' = pendingRewards(u)]_vars

\* a position that earned rewards, was unstaked in full, and has been empty
\* for a week
C22_Witness ==
    /\ stakingPositions[U1].stakedAmount = 0
    /\ ~stakingPositions[U1].isActive
    /\ stakingPositions[U1].startTime = StartTime
    /\ balanceOf[PYUSD_SEPOLIA][SP] < RewardFunding
    /\ now >= stakingPositions[U1].lastRewardUpdate + LongStep

(***************************************************************************)
(* C23: the latest unstake request wins                                    *)
(***************************************************************************)
LatestRequest(u) == rewardLog[u].requestTimes[Len(rewardLog[u].requestTimes)]
UnstakeProbes(u) ==
    {0, 1, stakingPositions[u].stakedAmount, stakingPositions[u].stakedAmount + 1}

\* the cooldown runs from the latest request
CooldownFromLatest ==
    \A u \in Users :
        /\ \A a \in UnstakeProbes(u) :
              requestUnstakeResult(u, a) = "ok"
                  <=> (stakingPositions[u].isActive
                          /\ stakingPositions[u].stakedAmount >= a)
        /\ stakingPositions[u].unstakeRequested
              <=> rewardLog[u].requestTimes # <<>>
        /\ stakingPositions[u].unstakeRequested
              => /\ stakingPositions[u].unstakeRequestTime = LatestRequest(u)
                 /\ now < LatestRequest(u) + UNSTAKE_DELAY
                       => \A a \in UnstakeProbes(u) :
                             executeUnstakeResult(u, a) = "UnstakeDelayNotMet"

\* a step in which a requestUnstake of u succeeded at a new time
RequestStep(u) ==
    /\ rewardLog'[u].requestTimes # <<>>
    /\ rewardLog'[u].requestTimes # rewardLog[u].requestTimes

\* C23: requestUnstake succeeds exactly for an active position with
\* stakedAmount >= amount, moves no funds, and replaces the pending request:
\* while a request is pending its time is that of the latest successful
\* requestUnstake, and executeUnstake fails with UnstakeDelayNotMet at every
\* time before that time plus 7 days, whatever earlier requests were made.
C23_LatestRequestWins ==
    /\ [](CooldownFromLatest)
    /\ [][\A u \in Users :
             RequestStep(u)
             => /\ stakingPositions[u].isActive
                /\ stakingPositions'[u].unstakeRequestTime = now
                /\ stakingPositions'[u].stakedAmount = stakingPositions[u].stakedAmount
                /\ UNCHANGED <<balanceOf, liquidStakingBalances, totalStakedPerToken,
                               totalProtocolRewards, positions>>]_vars

\* requests at T1 < T2; T1 + 7 days has passed, T2 + 7 days has not, and
\* executeUnstake fails with UnstakeDelayNotMet
C23_Witness ==
    /\ Len(rewardLog[U1].requestTimes) = 2
    /\ rewardLog[U1].requestTimes[1] < rewardLog[U1].requestTimes[2]
    /\ now >= rewardLog[U1].requestTimes[1] + UNSTAKE_DELAY
    /\ now < rewardLog[U1].requestTimes[2] + UNSTAKE_DELAY
    /\ stakingPositions[U1].stakedAmount > 0
    /\ executeUnstakeResult(U1, stakingPositions[U1].stakedAmount) = "UnstakeDelayNotMet"

(***************************************************************************)
(* C24: executeUnstake clears the request                                  *)
(***************************************************************************)
\* a step in which an executeUnstake of u succeeded
ExecuteStep(u) ==
    /\ rewardLog[u].requestTimes # <<>>
    /\ rewardLog'[u].requestTimes = <<>>

NoRequestNoUnstake ==
    \A u \in Users : \A a \in UnstakeProbes(u) :
        /\ rewardLog[u].requestTimes = <<>>
              => executeUnstakeResult(u, a) = "UnstakeNotRequested"
        /\ executeUnstakeResult(u, a) = "ok"
              => /\ rewardLog[u].requestTimes # <<>>
                 /\ now >= LatestRequest(u) + UNSTAKE_DELAY

RewardsUpToNow(u) ==
    stakingPositions[u].accumulatedRewards
        + (IF stakingPositions[u].isActive
           THEN MulDivMod(stakingPositions[u].stakedAmount * stakingPositions[u].rewardRate,
                          now - stakingPositions[u].lastRewardUpdate,
                          SECONDS_PER_YEAR)[1] \div BASIS_POINTS
           ELSE 0)
SplitFee(u) == (RewardsUpToNow(u) * protocolFeeRate) \div BASIS_POINTS
Unstaked(u) == stakingPositions[u].stakedAmount - stakingPositions'[u].stakedAmount
PaidIn(u) == stakingPositions[u].stakingToken

\* C25: on every successful executeUnstake(amount), with R the rewards accrued
\* up to now, protocolFee = floor(R * protocolFeeRate / 10000) is at most R/10
\* and goes to the treasury, the user receives amount + (R - protocolFee), the
\* proxy pays out amount + R, accumulatedRewards becomes 0, stakedAmount
\* decreases by amount and totalProtocolRewards increases by protocolFee.
C25_RewardSplit ==
    [][\A u \in Users :
          ExecuteStep(u)
          => /\ SplitFee(u) * 10 <= RewardsUpToNow(u)
             /\ Unstaked(u) >= 0
             /\ balanceOf'[PaidIn(u)][Treasury]
                   = balanceOf[PaidIn(u)][Treasury] + SplitFee(u)
             /\ balanceOf'[PaidIn(u)][u]
                   = balanceOf[PaidIn(u)][u] + Unstaked(u)
                         + (RewardsUpToNow(u) - SplitFee(u))
             /\ balanceOf'[PaidIn(u)][SP]
                   = balanceOf[PaidIn(u)][SP] - Unstaked(u) - RewardsUpToNow(u)
             /\ stakingPositions'[u].accumulatedRewards = 0
             /\ liquidStakingBalances'[u][PaidIn(u)]
                   = liquidStakingBalances[u][PaidIn(u)] - Unstaked(u)
             /\ totalStakedPerToken'[PaidIn(u)]
                   = totalStakedPerToken[PaidIn(u)] - Unstaked(u)
             /\ totalProtocolRewards' = totalProtocolRewards + SplitFee(u)]_vars

\* a partial unstake paid rewards with a fee of a tenth to the treasury
C25_Witness ==
    /\ protocolFeeRate = 1000
    /\ totalProtocolRewards >= 3
    /\ balanceOf[PYUSD_SEPOLIA][Treasury] = totalProtocolRewards
    /\ stakingPositions[U1].stakedAmount = 40000
    /\ stakingPositions[U1].accumulatedRewards = 0
    /\ rewardLog[U1].requestTimes = <<>>

(***************************************************************************)
(* C26: the health flag of getStakingInfo                                  *)
(***************************************************************************)
PositionValueUSD(u) ==
    calculateStakeValueUSD(stakingPositions[u].stakingToken,
                           stakingPositions[u].stakedAmount)

\* C26: for every user and state, the isHealthy value of getStakingInfo is the
\* negation of canLiquidate(user, USD value of stakedAmount): true exactly
\* when valuation * 10000 >= stakeValue * 13000.
C26_AsStated ==
    \A u \in Users :
        /\ isHealthy(u) <=> ~canLiquidate(u, PositionValueUSD(u))
        /\ isHealthy(u)
              <=> getCollateralValue(u) * (BASIS_POINTS \div RatioUnit)
                      >= PositionValueUSD(u) * (LIQUIDATION_THRESHOLD \div RatioUnit)

(***************************************************************************)
(* C27: caps of the fee parameters                                         *)
(***************************************************************************)
FeeParameters ==
    <<depositFee, withdrawalFee, feeRecipient, protocolFeeRate, baseAnnualRewardRate>>

WithinCaps ==
    /\ depositFee <= 500
    /\ withdrawalFee <= 500
    /\ protocolFeeRate <= 1000
    /\ baseAnnualRewardRate >= 1
    /\ baseAnnualRewardRate <= 2000
    /\ feeRecipient # ZERO

\* an update with an argument beyond its bound is rejected, by whoever called
ViolatingUpdatesRejected ==
    \A c \in {Owner, U1} :
        /\ \A d \in FeeInputs, w \in FeeInputs :
              (d > 500 \/ w > 500) => updateFeesResult(c, d, w) # "ok"
        /\ updateFeeRecipientResult(c, ZERO) # "ok"
        /\ \A r \in ProtocolFeeInputs :
              r > 1000 => updateProtocolFeeRateResult(c, r) # "ok"
        /\ \A r \in BaseRateInputs :
              (r = 0 \/ r > 2000) => updateBaseRewardRateResult(c, r) # "ok"

\* C27: in every reachable state depositFee <= 500, withdrawalFee <= 500,
\* protocolFeeRate <= 1000, 1 <= baseAnnualRewardRate <= 2000 and feeRecipient
\* is not the zero address; an update with any argument beyond its bound is
\* rejected, and a step changes a parameter only to an accepted value, all
\* other parameters keeping their values unless set by the same call.
C27_FeeCaps ==
    /\ [](WithinCaps /\ ViolatingUpdatesRejected)
    /\ [][/\ (depositFee' # depositFee \/ withdrawalFee' # withdrawalFee)
             => /\ depositFee' \in {0, 500} /\ withdrawalFee' \in {0, 500}
                /\ UNCHANGED <<feeRecipient, protocolFeeRate, baseAnnualRewardRate>>
          /\ feeRecipient' # feeRecipient
             => /\ feeRecipient' \in {Treasury, U2}
                /\ UNCHANGED <<depositFee, withdrawalFee, protocolFeeRate,
                               baseAnnualRewardRate>>
          /\ protocolFeeRate' # protocolFeeRate
             => /\ protocolFeeRate' \in {0, 1000}
                /\ UNCHANGED <<depositFee, withdrawalFee, feeRecipient,
                               baseAnnualRewardRate>>
          /\ baseAnnualRewardRate' # baseAnnualRewardRate
             => /\ baseAnnualRewardRate' \in {1, 2000}
                /\ UNCHANGED <<depositFee, withdrawalFee, feeRecipient,
                               protocolFeeRate>>]_vars

\* every parameter has been moved to its cap
C27_Witness ==
    /\ depositFee = 500
    /\ withdrawalFee = 500
    /\ protocolFeeRate = 1000
    /\ baseAnnualRewardRate = 2000
    /\ feeRecipient = U2
    /\ updateFeesResult(Owner, 0, 501) = "Fee too high"

(***************************************************************************)
(* C28: the agent allow-list                                               *)
(***************************************************************************)
Candidates == {A1, A2, U1, ZERO}
Label(a) == IF a \in DOMAIN agentTypes THEN agentTypes[a] ELSE ""

AllowList ==
    /\ ZERO \notin authorizedAgents
    /\ authorizeAgentResult(Owner, ZERO) = "InvalidRequest"
    /\ \A c \in Candidates \ DefaultAdminRole :
          /\ revokeAgentResult(c) = "AccessControlUnauthorizedAccount"
          /\ \A a \in Candidates :
                authorizeAgentResult(c, a) = "AccessControlUnauthorizedAccount"
    /\ \A a \in Candidates :
          a \notin authorizedAgents
          => /\ Label(a) = ""
             /\ \A u \in {U1, ZERO}, off \in ExpiryOffsets :
                   createAgentRequestResult(a, u, now + off)
                       = "AccessControlUnauthorizedAccount"

Removed(t) == ~tokenConfigs[t].isSupported

\* C29: while a token is removed, every deposit of it fails with
\* TokenNotSupported.
C29_AsStated ==
    \A t \in Tokens :
        Removed(t) =>
            \A a \in ConfigAmounts, cv \in ConfigCallValues :
                /\ depositCollateralResult(U1, t, a, cv[1], cv[2]) = "TokenNotSupported"
                /\ t = getPYUSDAddress
                      => depositPYUSDResult(U1, a, cv[1], cv[2]) = "TokenNotSupported"

DepositsOfRemovedFail ==
    \A t \in Tokens :
        Removed(t) =>
            \A a \in ConfigAmounts, cv \in ConfigCallValues :
                /\ depositCollateralResult(U1, t, a, cv[1], cv[2]) = "TokenNotSupported"
                /\ t = getPYUSDAddress
                      => depositPYUSDResult(U1, a, cv[1], cv[2])
                             = (IF a = 0 THEN "InvalidAmount" ELSE "TokenNotSupported")

\* C29 (amended): while a token is removed and not added again, every
\* depositCollateral of it and every depositPYUSD of a positive amount fails
\* with TokenNotSupported, and depositPYUSD of amount 0 fails with
\* InvalidAmount; the removal and every later step up to a re-addition leave
\* each user's balance of the token, as getTokenBalance returns it, unchanged.
C29_SoftDelete ==
    /\ [](DepositsOfRemovedFail)
    /\ [][\A t \in Tokens :
             Removed(t)'
             => \A u \in Users : getTokenBalance(u, t)' = getTokenBalance(u, t)]_vars

\* the removed token of which user1 still holds the tested deposit
C29_Witness ==
    /\ Removed(PYUSD_SEPOLIA)
    /\ getTokenBalance(U1, PYUSD_SEPOLIA) > 0
    /\ balanceOf[PYUSD_SEPOLIA][U1] >= TestedDeposit
    /\ depositPYUSDResult(U1, 0, FALSE, 0) = "InvalidAmount"
    /\ depositCollateralResult(U1, PYUSD_SEPOLIA, TestedDeposit, FALSE, 0)
           = "TokenNotSupported"

(***************************************************************************)
(* C30: liquid balance and staked amount                                   *)
(***************************************************************************)
\* getStakingInfo: liquidTokenBalance
liquidTokenBalance(u) == LiquidBalance(u, stakingPositions[u].stakingToken)

\* C30: for every user, after any sequence of successful stakes and unstakes,
\* the liquidTokenBalance returned by getStakingInfo equals the position's
\* stakedAmount.
C30_AsStated ==
    \A u \in Users : liquidTokenBalance(u) = stakingPositions[u].stakedAmount

(***************************************************************************)
(* C31: withdrawal and staking health                                      *)
(***************************************************************************)
WithdrawTokens == {PYUSD_SEPOLIA, STK}
Withdrawable(u, t, a) ==
    /\ tokenConfigs[t].isSupported
    /\ a > 0
    /\ positions[u].tokenBalances[t] >= a

\* C31: withdrawCollateral succeeds whenever the token is supported, the
\* amount is positive and the balance is at least the amount, and fails with
\* InsufficientBalance when the balance is smaller.
C31_AsStated ==
    \A t \in WithdrawTokens, cv \in CallValues : \A a \in WithdrawAmounts(U1, t) :
        /\ Withdrawable(U1, t, a)
              => withdrawCollateralResult(U1, t, a, cv[1], cv[2]) = "ok"
        /\ (tokenConfigs[t].isSupported /\ a > 0 /\ positions[U1].tokenBalances[t] < a)
              => withdrawCollateralResult(U1, t, a, cv[1], cv[2]) = "InsufficientBalance"

\* C31 (amended): the outcome of withdrawCollateral is decided by the token's
\* support flag, the amount, the caller's balance and the price update alone,
\* whatever the caller has staked: with a supported token, a positive amount
\* and a sufficient balance the call succeeds unless it carries update data
\* without the update fee (stablecoin collateral needs no quote).
C31_WithdrawIgnoresStake ==
    \A t \in WithdrawTokens, cv \in CallValues : \A a \in WithdrawAmounts(U1, t) :
        withdrawCollateralResult(U1, t, a, cv[1], cv[2])
            = (IF ~tokenConfigs[t].isSupported THEN "TokenNotSupported"
               ELSE IF a = 0 THEN "InvalidAmount"
               ELSE IF positions[U1].tokenBalances[t] < a THEN "InsufficientBalance"
               ELSE IF cv[1] /\ cv[2] < updateFee THEN "InvalidPriceUpdate"
               ELSE "ok")

\* a stake followed by the withdrawal of the whole collateral
C31_Witness ==
    /\ stakingPositions[U1].stakedAmount > 0
    /\ positions[U1].totalValueUSD = 0
    /\ positions[U1].tokenBalances[PYUSD_SEPOLIA] = 0
    /\ collateralLedger[U1][PYUSD_SEPOLIA].withdrawn > 0

(***************************************************************************)
(* C32: isActive and depositCount of a collateral position                 *)
(***************************************************************************)
NetDeposited(u) ==
    collateralLedger[u][PYUSD_MAINNET].deposited
        + collateralLedger[u][PYUSD_SEPOLIA].deposited
        + collateralLedger[u][STK].deposited

\* a step in which a deposit of u succeeded: its ledger of net deposits grew
DepositSucceeded(u) == NetDeposited(u)' > NetDeposited(u)

\* C32: a user's position is active exactly when the user has made a
\* successful deposit, and stays active for ever, also with every balance
\* withdrawn; depositCount grows by one with every successful deposit of the
\* user and changes in no other step.
C32_FlagsMonotonic ==
    /\ [](\A u \in Users : positions[u].isActive <=> positions[u].depositCount > 0)
    /\ [][\A u \in Users :
             /\ positions[u].isActive => positions'[u].isActive
             /\ DepositSucceeded(u)
                   => /\ positions'[u].isActive
                      /\ positions'[u].depositCount = positions[u].depositCount + 1
             /\ ~DepositSucceeded(u)
                   => positions'[u].depositCount = positions[u].depositCount]_vars

\* two deposits, everything withdrawn again, the position still active
C32_Witness ==
    /\ positions[U1].isActive
    /\ positions[U1].depositCount = 2
    /\ \A t \in Tokens : positions[U1].tokenBalances[t] = 0
    /\ positions[U1].totalValueUSD = 0

(***************************************************************************)
(* C33: the per-user rate-limit view                                       *)
(***************************************************************************)
\* what a createAgentRequest for u by the authorized agent with a valid
\* expiry would do now
RequestNow(u) == createAgentRequestResult(A1, u, now + ONE_DAY)

\* C33: checkRateLimit(user) is true exactly when a createAgentRequest for
\* the user by an authorized agent with a valid expiry would not fail with
\* RateLimitExceeded now.
C33_AsStated ==
    A1 \in agentRole =>
        \A u \in Users : checkRateLimit(u) <=> RequestNow(u) # "RateLimitExceeded"

\* C33 (amended): while the controller is not paused, checkRateLimit(user) is
\* true exactly when such a createAgentRequest would succeed, and false
\* exactly when it would fail with RateLimitExceeded; paused or not, it is
\* false exactly when 10 requests for the user are stored in the current
\* hour bucket.
C33_RateLimitView ==
    /\ \A u \in Users :
          checkRateLimit(u) <=> Cardinality(StoredFor(u, currentHour)) < 10
    /\ (A1 \in agentRole /\ ~paused) =>
          \A u \in Users :
              /\ checkRateLimit(u) <=> RequestNow(u) = "ok"
              /\ ~checkRateLimit(u) <=> RequestNow(u) = "RateLimitExceeded"

\* ten requests for user1 in the bucket that has ended: the view is true
\* again and the next request is accepted
C33_Witness ==
    /\ Cardinality(StoredFor(U1, currentHour - 1)) = 10
    /\ StoredFor(U1, currentHour) = {}
    /\ checkRateLimit(U1)
    /\ ~paused
    /\ RequestNow(U1) = "ok"

(***************************************************************************)
(* C34: the proxy's holding of a staking token                             *)
(***************************************************************************)
\* C34: for every staking token, the StakingProxy holds at least
\* totalStakedPerToken[token].
C34_AsStated ==
    \A t \in Tokens : balanceOf[t][SP] >= totalStakedPerToken[t]

(***************************************************************************)
(* C35: the staking ledger's sums                                          *)
(***************************************************************************)
LiquidOfToken(t) == liquidStakingBalances[U1][t] + liquidStakingBalances[U2][t]
LiquidOfUser(u) ==
    liquidStakingBalances[u][PYUSD_MAINNET] + liquidStakingBalances[u][PYUSD_SEPOLIA]
        + liquidStakingBalances[u][STK]

LedgerSums ==
    /\ \A t \in Tokens : totalStakedPerToken[t] = LiquidOfToken(t)
    /\ \A u \in Users : stakingPositions[u].stakedAmount = LiquidOfUser(u)

\* C35: in every reachable state totalStakedPerToken[token] is the sum over
\* users of liquidStakingBalances[user][token], and stakedAmount is the sum
\* over tokens of liquidStakingBalances[user][token]; stakedAmount decreases
\* only in a successful executeUnstake, which settles the rewards and clears
\* the request.
C35_LedgerSums ==
    /\ [](LedgerSums)
    /\ [][\A u \in Users :
             stakingPositions'[u].stakedAmount < stakingPositions[u].stakedAmount
             => /\ ExecuteStep(u)
                /\ stakingPositions[u].unstakeRequested
                /\ now >= stakingPositions[u].unstakeRequestTime + UNSTAKE_DELAY
                /\ stakingPositions'[u].accumulatedRewards = 0
                /\ stakingPositions'[u].lastRewardUpdate = now]_vars

\* user1 holds stakes of two tokens in one position after a partial unstake,
\* user2 holds a stake too
C35_Witness ==
    /\ liquidStakingBalances[U1][PYUSD_SEPOLIA] = 70
    /\ liquidStakingBalances[U1][STK] = 30
    /\ stakingPositions[U1].stakedAmount = 100
    /\ liquidStakingBalances[U2][PYUSD_SEPOLIA] = 100
    /\ totalStakedPerToken[PYUSD_SEPOLIA] = 170

(***************************************************************************)
(* C36: supportedTokens holds no token twice and holds a token exactly     *)
(* when tokenConfigs[token].isSupported is true, under any sequence of     *)
(* addSupportedToken and removeSupportedToken calls; adding a token that   *)
(* is already supported changes neither its configuration nor the array.   *)
(***************************************************************************)
InArray(t) == \E i \in 1..Len(supportedTokens) : supportedTokens[i] = t

NoDuplicates ==
    \A i, j \in 1..Len(supportedTokens) :
        supportedTokens[i] = supportedTokens[j] => i = j

ListMatchesFlags ==
    NoDuplicates /\ \A t \in Tokens : InArray(t) <=> tokenConfigs[t].isSupported

\* a step that grows the array appended one token that was not supported;
\* a step that leaves a token supported leaves its configuration alone
AddOnlyNew ==
    /\ Len(supportedTokens') > Len(supportedTokens)
          => \E t \in Tokens :
                /\ ~tokenConfigs[t].isSupported
                /\ supportedTokens' = Append(supportedTokens, t)
    /\ \A t \in Tokens :
          tokenConfigs[t].isSupported /\ tokenConfigs'[t].isSupported
             => tokenConfigs'[t] = tokenConfigs[t]
    /\ Len(supportedTokens') = Len(supportedTokens)
          => supportedTokens' = supportedTokens

C36_TokenList == [](ListMatchesFlags) /\ [][AddOnlyNew]_vars

\* the first entry was removed after a third token had been added: the last
\* entry took its place
C36_Witness ==
    /\ supportedTokens = <<STK, PYUSD_SEPOLIA>>
    /\ tokenConfigs[PYUSD_SEPOLIA] = PyusdConfig
    /\ tokenConfigs[STK].pythPriceId = ETH_USD
    /\ ~tokenConfigs[PYUSD_MAINNET].isSupported

(***************************************************************************)
(* C37: no bridge operation is both completed and cancelled, under any     *)
(* interleaving of confirmBridgeAndStake, cancelBridgeOperation and        *)
(* emergencyCompleteOperation.  emergencyCompleteOperation does not look   *)
(* at the cancelled flag, so a cancelled operation can still be completed. *)
(***************************************************************************)
C37_AsStated ==
    \A id \in DOMAIN bridgeOperations :
        ~(bridgeOperations[id].completed /\ bridgeOperations[id].cancelled)

(***************************************************************************)
(* C38: no two distinct bridge operations carry the same non-zero          *)
(* nexusTxHash.  emergencyCompleteOperation writes the hash to the         *)
(* operation without reading or recording processedNexusTxs, so the hash   *)
(* can complete a second operation.                                        *)
(***************************************************************************)
C38_AsStated ==
    \A id1, id2 \in DOMAIN bridgeOperations :
        id1 # id2 /\ bridgeOperations[id1].nexusTxHash # ""
            => bridgeOperations[id1].nexusTxHash # bridgeOperations[id2].nexusTxHash

(***************************************************************************)
(* C39: in the earlier StakingProxy every bridgeId is staked at most once: *)
(* at most one executeStakeAfterBridge call with an id succeeds, a later   *)
(* call with the same id fails and changes no position, and a call that is *)
(* rejected does not consume its id.  The later call fails with            *)
(* BridgeIdAlreadyProcessed when its token is supported and its amount is  *)
(* not zero; the token and the amount are checked before the id, so        *)
(* otherwise it fails with TokenNotSupported or InvalidAmount.             *)
(***************************************************************************)
VariantCalls == Users \X {PYUSD_SEPOLIA, STK} \X VariantAmounts

StakedOnce ==
    \A id \in BridgeIds :
        /\ Len(crossChainStakes[id]) <= 1
        /\ Len(crossChainStakes[id]) = 1 <=> id \in processedBridgeIds

\* as stated: every later call with a used id fails with BridgeIdAlreadyProcessed
C39_AsStated ==
    /\ StakedOnce
    /\ \A id \in processedBridgeIds : \A c \in VariantCalls :
          variantStakeAfterBridgeResult(c[1], c[2], c[3], id) = "BridgeIdAlreadyProcessed"

UsedIdRejected ==
    \A id \in processedBridgeIds : \A c \in VariantCalls :
        variantStakeAfterBridgeResult(c[1], c[2], c[3], id) =
            IF c[2] \notin supportedStakingTokens THEN "TokenNotSupported"
            ELSE IF c[3] = 0 THEN "InvalidAmount"
            ELSE "BridgeIdAlreadyProcessed"

\* an id is consumed only together with the one stake it pays for, and a
\* position changes only when a fresh id is consumed
IdPaysOneStake ==
    /\ processedBridgeIds \subseteq processedBridgeIds'
    /\ (variantPositions' # variantPositions
           <=> processedBridgeIds' # processedBridgeIds)
    /\ \A id \in processedBridgeIds' \ processedBridgeIds :
          /\ processedBridgeIds' = processedBridgeIds \cup {id}
          /\ Len(crossChainStakes[id]) = 0
          /\ \E c \in VariantCalls :
                /\ variantStakeAfterBridgeResult(c[1], c[2], c[3], id) = "ok"
                /\ crossChainStakes'[id] = <<c>>
                /\ totalStaked' = totalStaked + c[3]

C39_BridgeIdOnce == [](StakedOnce /\ UsedIdRejected) /\ [][IdPaysOneStake]_vars

\* an id has been staked, the same stake with the same id is refused although
\* the user's collateral would cover it, and another id was presented
\* without success and is still unused
C39_Witness ==
    /\ PYUSD_SEPOLIA \in supportedStakingTokens
    /\ canStake(U1, 10 * 2500)
    /\ ~canStake(U2, 10 * 2500)
    /\ "bridge_1" \in processedBridgeIds
    /\ variantPositions[U1].stakedAmount = 10
    /\ variantStakeAfterBridgeResult(U1, PYUSD_SEPOLIA, 10, "bridge_1")
          = "BridgeIdAlreadyProcessed"
    /\ variantStakeAfterBridgeResult(U2, PYUSD_SEPOLIA, 10, "bridge_2")
          = "InsufficientCollateral"
    /\ "bridge_2" \notin processedBridgeIds

(***************************************************************************)
(* C40: the value attached to a request is sent back by cancelRequest at   *)
(* most once and never after the request was executed, also when the       *)
(* user's receive hook calls cancelRequest or executeAgentRequest during   *)
(* the refund: the controller holds the value of every request that was    *)
(* not refunded, no request is both executed and refunded, and every       *)
(* payment out of the controller is the value of one request that was      *)
(* pending until then.                                                     *)
(***************************************************************************)
RECURSIVE ValueOf(_)
ValueOf(ids) ==
    IF ids = {} THEN 0
    ELSE LET id == CHOOSE x \in ids : TRUE
         IN Req(id).value + ValueOf(ids \ {id})

\* the requests whose refund was sent: cancelled, or being cancelled
Refunded ==
    {id \in DOMAIN agentRequests :
        \/ <<"RequestCancelled", id>> \in requestEvents
        \/ (inFlight.op = "cancelRequest" /\ inFlight.token = id)}

ValueHeld == controllerEth = ValueOf(DOMAIN agentRequests \ Refunded)

NoRefundOfExecuted ==
    \A id \in Refunded :
        /\ <<"RequestExecuted", id>> \notin requestEvents
        /\ agentRequests[id].executed

RefundStep ==
    controllerEth' < controllerEth
        => \E id \in DOMAIN agentRequests :
              /\ ~agentRequests[id].executed
              /\ id \notin Refunded
              /\ Refunded' = Refunded \cup {id}
              /\ controllerEth' = controllerEth - agentRequests[id].value

C40_RefundOnce == [](ValueHeld /\ NoRefundOfExecuted) /\ [][RefundStep]_vars

\* while one request of the user is being refunded the hook has cancelled
\* the user's other request, and the controller holds nothing any more
C40_Witness ==
    /\ inFlight.op = "cancelRequest"
    /\ Cardinality(Refunded) = 2
    /\ \A id \in Refunded : agentRequests[id].user = U1 /\ agentRequests[id].value > 0
    /\ controllerEth = 0
====
